---- MODULE Spec2Model ----
(***************************************************************************)
(* Control plane of the syntropism agent economy: the allocation auction   *)
(* (core/scheduler.py), the ledger (domain/economy.py), the attention      *)
(* market (domain/attention.py), genesis / spawning (core/genesis.py) and  *)
(* the cycle driver (core/orchestrator.py, cli.py).                        *)
(*                                                                         *)
(* Credits are integers.  Resource quantities are counted in whole units   *)
(* of the resource's fraction 1.0, so the seeded supplies are 10, 1024,    *)
(* 1000000 and 1.  A price is the rational num/den kept as a record, never *)
(* rounded.  The identifier of a row of bids, executions, prompts or       *)
(* responses is its position in the table; 0 is the null reference.        *)
(***************************************************************************)
EXTENDS Integers, Sequences, FiniteSets, TLC

(***************************************************************************)
(* Bound of the model: the number of requests the API accepts that add a   *)
(* row (a bid, a prompt, a transfer, a child agent).                       *)
(***************************************************************************)
MaxRequests == 2

\* Bound of the model: the number of times an exception ends the process.
MaxCrashes == 1

(***************************************************************************)
(* Program constants.                                                      *)
(***************************************************************************)
SPAWN_COST == 10
GENESIS_CREDITS == 1000
BOOTSTRAP_BID == 10
CPU_LEGACY_DIVISOR == 10
MEMORY_LEGACY_DIVISOR == 1024
TOKENS_LEGACY_DIVISOR == 1000000

ResourceType == {"cpu", "memory", "tokens", "attention"}

ATTENTION_CONVERSION_RATES == [interesting |-> 50, useful |-> 50, understandable |-> 50]

MIN_PRICE == [num |-> 1, den |-> 100]
MAX_PRICE == [num |-> 1000, den |-> 1]

\* Rows written by seed_market_state: (resource, supply, price).
SeedMarket ==
  [cpu       |-> [available_supply |-> 10,      current_utilization |-> 0,
                  current_market_price |-> [num |-> 1, den |-> 1]],
   memory    |-> [available_supply |-> 1024,    current_utilization |-> 0,
                  current_market_price |-> [num |-> 1, den |-> 10]],
   tokens    |-> [available_supply |-> 1000000, current_utilization |-> 0,
                  current_market_price |-> [num |-> 1, den |-> 1000]],
   attention |-> [available_supply |-> 1,       current_utilization |-> 0,
                  current_market_price |-> [num |-> 10, den |-> 1]]]

(***************************************************************************)
(* ResourceBundle rows.  A bundle carries the deprecated absolute fields   *)
(* and the capacity fields; a column that was not given holds its default: *)
(* NULL for cpu_seconds, memory_mb and tokens, 0 for the others.           *)
(* "bootstrap" is the bundle bootstrap_genesis_execution creates, "legacy" *)
(* a bundle as the bid endpoint creates it (every deprecated field given), *)
(* and the others are bundles made of capacity fields.                     *)
(***************************************************************************)
NULL == -1

NoBundle ==
  [cpu_seconds |-> NULL, memory_mb |-> NULL, tokens |-> NULL, attention_share |-> 0,
   cpu_percent |-> 0, memory_percent |-> 0, tokens_percent |-> 0,
   attention_percent |-> 0, duration_seconds |-> 0]

ResourceBundles ==
  [bootstrap |-> [NoBundle EXCEPT !.cpu_seconds = 5, !.memory_mb = 128,
                                  !.tokens = 1000, !.attention_share = 1],
   cpu6      |-> [NoBundle EXCEPT !.cpu_percent = 6, !.duration_seconds = 1],
   cpu4      |-> [NoBundle EXCEPT !.cpu_percent = 4, !.tokens_percent = 1,
                                  !.duration_seconds = 2],
   attn      |-> [NoBundle EXCEPT !.attention_percent = 1, !.duration_seconds = 1],
   legacy    |-> [NoBundle EXCEPT !.cpu_seconds = 10, !.memory_mb = 2048,
                                  !.tokens = 0, !.attention_share = 1],
   over      |-> [NoBundle EXCEPT !.cpu_percent = 4, !.memory_percent = 1025,
                                  !.duration_seconds = 1],
   mem       |-> [NoBundle EXCEPT !.memory_percent = 1000,
                                  !.duration_seconds = 2]]

\* The bundles and amounts that place_bid is called with; the schema of the
\* request admits every amount >= 0.
BidRequests == {<<"cpu6", 600>>, <<"cpu6", 15>>, <<"cpu4", 15>>,
                <<"attn", 600>>, <<"legacy", 15>>, <<"over", 15>>,
                <<"mem", 15>>, <<"cpu4", 0>>}

\* Identifiers of agents, in the order they are created.
AgentIds == <<"genesis", "agent-1", "agent-2", "agent-3", "agent-4">>
\* The agent ids a request names: "agent-4" is never an agent.
AgentNames == {AgentIds[n] : n \in 1 .. Len(AgentIds)}

\* Arguments of spawn_child_agent, transfer_credits, submit_prompt, reward_prompt.
InitialCredits == {-5, 0, 20}
TransferAmounts == {-5, 0, 5, 2000}
TransferTargets == {"genesis", "system", "SYSTEM", "agent-4"}
PromptBids == {-5, 0, 10, 2000}
Scores == {<<5, 5, 5>>, <<8, 9, 7>>, <<11, 5, 5>>}
\* The prompt ids a reward request names: those of the prompts that can
\* exist, and one that is never a prompt.
PromptIds == 1 .. MaxRequests + 1

\* agents .. responses are the tables of the store; pc is the place of the
\* driver, winning_bids and pending_prompts are the lists it iterates over,
\* and cycle_log records the order in which the last allocation cycle
\* cleared its bids, the events the last call of run_allocation_cycle
\* published and what raised in it.  committed is the store as of the last commit: what
\* another session reads, and what is left when a session is closed before
\* it commits.  crashes counts the times the process ended on an exception.
\* identity_map holds the Agent objects the session of the driver has loaded
\* since its last commit: a query that returns a row whose object is loaded
\* returns that object with the attributes it was loaded with.  directories
\* holds the workspace directories on the disk, named by their agent: "written"
\* when the files of the agent are in it, "partial" when they are not.
VARIABLES agents, workspaces, bids, executions, transactions, market,
          prompts, responses, pc, winning_bids, pending_prompts, cycle_log,
          committed, crashes, identity_map, directories

vars == <<agents, workspaces, bids, executions, transactions, market,
          prompts, responses, pc, winning_bids, pending_prompts, cycle_log,
          committed, crashes, identity_map, directories>>

\* The tables as the session of the driver sees them.
Tables ==
  [agents |-> agents, workspaces |-> workspaces, bids |-> bids,
   executions |-> executions, transactions |-> transactions, market |-> market,
   prompts |-> prompts, responses |-> responses]

\* session.commit()
Commit == committed' = Tables'

\* The session is closed with uncommitted changes (main()'s finally, after an
\* exception left run_system_loop): the changes are rolled back.
Rollback ==
  /\ agents' = committed.agents
  /\ workspaces' = committed.workspaces
  /\ bids' = committed.bids
  /\ executions' = committed.executions
  /\ transactions' = committed.transactions
  /\ market' = committed.market
  /\ prompts' = committed.prompts
  /\ responses' = committed.responses
  /\ UNCHANGED committed

\* The identity map of a session after commit(), expire_all() or close().
NothingLoaded == <<>>

\* The Agent the session of the driver gets for agent_id: the loaded object,
\* else the row of the table.
Loaded(agent_id) ==
  IF agent_id \in DOMAIN identity_map THEN identity_map[agent_id]
  ELSE agents[agent_id]

\* The driver holds no uncommitted write.  The store has one writer at a
\* time: from the first write the driver flushes until its commit, a request
\* of the API that writes does not get through.
NoOpenWrite == Tables = committed

(***************************************************************************)
(* Prices: exact rationals with a positive denominator.                    *)
(***************************************************************************)
PriceLeq(p, q) == p.num * q.den <= q.num * p.den

PriceEq(p, q) == p.num * q.den = q.num * p.den

\* max(MIN_PRICE, min(MAX_PRICE, price))
ClampPrice(price) ==
  LET capped == IF PriceLeq(MAX_PRICE, price) THEN MAX_PRICE ELSE price
  IN IF PriceLeq(capped, MIN_PRICE) THEN MIN_PRICE ELSE capped

(***************************************************************************)
(* Tables.                                                                 *)
(***************************************************************************)
Rows(table) == 1 .. Len(table)

RECURSIVE SumOver(_, _)
SumOver(S, f) ==
  IF S = {} THEN 0
  ELSE LET x == CHOOSE y \in S : TRUE IN f[x] + SumOver(S \ {x}, f)

\* Every order in which an unordered SELECT can return the rows S.
RECURSIVE QueryOrders(_)
QueryOrders(S) ==
  IF S = {} THEN {<<>>}
  ELSE UNION {{<<x>> \o rest : rest \in QueryOrders(S \ {x})} : x \in S}

(***************************************************************************)
(* run_allocation_cycle: the order of clearing.  list.sort(key=amount,     *)
(* reverse=True) is stable: bids of equal amount keep the order in which   *)
(* the query returned them.                                                *)
(***************************************************************************)
RECURSIVE InsertByAmount(_, _, _)
InsertByAmount(sorted, i, bs) ==
  IF sorted = <<>> THEN <<i>>
  ELSE IF bs[Head(sorted)].amount >= bs[i].amount
       THEN <<Head(sorted)>> \o InsertByAmount(Tail(sorted), i, bs)
       ELSE <<i>> \o sorted

RECURSIVE SortByAmount(_, _)
SortByAmount(rows, bs) ==
  IF rows = <<>> THEN <<>>
  ELSE InsertByAmount(SortByAmount(SubSeq(rows, 1, Len(rows) - 1), bs),
                      rows[Len(rows)], bs)

\* The requirement of a bundle per resource: the capacity field, or, when it
\* is unset (0), the deprecated field converted when it is neither NULL nor 0.  The deprecated amounts of
\* the bundles bid on are multiples of the divisor, so the quotient is exact.
Requirements(bundle) ==
  [cpu       |-> IF bundle.cpu_percent # 0 THEN bundle.cpu_percent
                 ELSE IF bundle.cpu_seconds \notin {NULL, 0}
                      THEN bundle.cpu_seconds \div CPU_LEGACY_DIVISOR ELSE 0,
   memory    |-> IF bundle.memory_percent # 0 THEN bundle.memory_percent
                 ELSE IF bundle.memory_mb \notin {NULL, 0}
                      THEN bundle.memory_mb \div MEMORY_LEGACY_DIVISOR ELSE 0,
   tokens    |-> IF bundle.tokens_percent # 0 THEN bundle.tokens_percent
                 ELSE IF bundle.tokens \notin {NULL, 0}
                      THEN bundle.tokens \div TOKENS_LEGACY_DIVISOR ELSE 0,
   attention |-> IF bundle.attention_percent # 0 THEN bundle.attention_percent
                 ELSE bundle.attention_share]

\* The resources of a requirement that the cycle checks and counts.
Counted(requirements, market_states) ==
  {rt \in ResourceType : requirements[rt] > 0 /\ rt \in DOMAIN market_states}

\* can_allocate with the check for a full supply off by one (>= for >).
CanAllocateOffByOne(requirements, consumed_supply, market_states, credit_balance, amount) ==
  /\ \A rt \in Counted(requirements, market_states) :
       ~(consumed_supply[rt] + requirements[rt] >= market_states[rt])
  /\ ~(credit_balance < amount)

\* can_allocate: every counted requirement fits in what is left of the
\* supply, and the agent can pay the bid now.
CanAllocate(requirements, consumed_supply, market_states, credit_balance, amount) ==
  /\ \A rt \in Counted(requirements, market_states) :
       ~(consumed_supply[rt] + requirements[rt] > market_states[rt])
  /\ ~(credit_balance < amount)

\* consumed_supply counting one unit per winner whatever the bundle asks for.
ConsumeOneUnit(consumed_supply, requirements, market_states) ==
  [rt \in DOMAIN consumed_supply |->
     IF rt \in Counted(requirements, market_states)
     THEN consumed_supply[rt] + 1
     ELSE consumed_supply[rt]]

\* consumed_supply after a winner: every counted requirement is added.
Consume(consumed_supply, requirements, market_states) ==
  [rt \in DOMAIN consumed_supply |->
     IF rt \in Counted(requirements, market_states)
     THEN consumed_supply[rt] + requirements[rt]
     ELSE consumed_supply[rt]]

\* price_discovery with the bid amount shared out over the counted resources.
DiscoverShared(price_discovery, requirements, market_states, amount, duration_seconds) ==
  [rt \in DOMAIN price_discovery |->
     IF rt \in Counted(requirements, market_states)
     THEN [total_credits |->
             price_discovery[rt].total_credits
               + amount \div Cardinality(Counted(requirements, market_states)),
           total_capacity_seconds |->
             price_discovery[rt].total_capacity_seconds
               + requirements[rt] * duration_seconds]
     ELSE price_discovery[rt]]

\* price_discovery after a winner: the full bid amount and the
\* capacity-seconds go to every counted resource.
Discover(price_discovery, requirements, market_states, amount, duration_seconds) ==
  [rt \in DOMAIN price_discovery |->
     IF rt \in Counted(requirements, market_states)
     THEN [total_credits |-> price_discovery[rt].total_credits + amount,
           total_capacity_seconds |->
             price_discovery[rt].total_capacity_seconds
               + requirements[rt] * duration_seconds]
     ELSE price_discovery[rt]]

\* The loop body taking the supply resource by resource: a rejected bid keeps
\* the resources that fitted before the one that did not.
ProcessBidPartial(acc, i, market_states) ==
  LET bid == acc.bids[i]
      bundle == ResourceBundles[bid.resource_bundle_id]
      requirements == Requirements(bundle)
      agent == acc.agents[bid.from_agent_id]
      can_allocate == CanAllocate(requirements, acc.consumed_supply, market_states,
                                  agent.credit_balance, bid.amount)
      execution == [agent_id |-> bid.from_agent_id,
                    resource_bundle_id |-> bid.resource_bundle_id,
                    status |-> "PENDING", exit_code |-> -1]
      fitting == [rt \in ResourceType |->
                    IF rt \in DOMAIN market_states
                         /\ acc.consumed_supply[rt] + requirements[rt]
                              <= market_states[rt]
                    THEN requirements[rt] ELSE 0]
  IN IF can_allocate
     THEN [acc EXCEPT
            !.executions = Append(@, execution),
            !.bids[i].execution_id = Len(acc.executions) + 1,
            !.bids[i].status = "winning",
            !.agents[bid.from_agent_id].credit_balance = @ - bid.amount,
            !.consumed_supply = Consume(@, requirements, market_states),
            !.price_discovery = Discover(@, requirements, market_states,
                                         bid.amount, bundle.duration_seconds)]
     ELSE [acc EXCEPT !.bids[i].status = "outbid",
                      !.consumed_supply = Consume(@, fitting, market_states)]

\* The loop body that creates the Execution of a winner and does not set the
\* bid's execution_id.
ProcessBidUnlinked(acc, i, market_states) ==
  LET bid == acc.bids[i]
      bundle == ResourceBundles[bid.resource_bundle_id]
      requirements == Requirements(bundle)
      agent == acc.agents[bid.from_agent_id]
      can_allocate == CanAllocate(requirements, acc.consumed_supply, market_states,
                                  agent.credit_balance, bid.amount)
      execution == [agent_id |-> bid.from_agent_id,
                    resource_bundle_id |-> bid.resource_bundle_id,
                    status |-> "PENDING", exit_code |-> -1]
  IN IF can_allocate
     THEN [acc EXCEPT
            !.executions = Append(@, execution),
            !.bids[i].status = "winning",
            !.agents[bid.from_agent_id].credit_balance = @ - bid.amount,
            !.consumed_supply = Consume(@, requirements, market_states),
            !.price_discovery = Discover(@, requirements, market_states,
                                         bid.amount, bundle.duration_seconds)]
     ELSE [acc EXCEPT !.bids[i].status = "outbid"]

\* The body of the loop over pending_bids for the bid of row i.  acc holds the
\* session's agents, bids and executions, consumed_supply and price_discovery.
ProcessBid(acc, i, market_states) ==
  LET bid == acc.bids[i]
      bundle == ResourceBundles[bid.resource_bundle_id]
      requirements == Requirements(bundle)
      agent == acc.agents[bid.from_agent_id]
      can_allocate == CanAllocate(requirements, acc.consumed_supply, market_states,
                                  agent.credit_balance, bid.amount)
      execution == [agent_id |-> bid.from_agent_id,
                    resource_bundle_id |-> bid.resource_bundle_id,
                    status |-> "PENDING", exit_code |-> -1]
  IN IF can_allocate
     THEN [acc EXCEPT
            !.executions = Append(@, execution),
            !.bids[i].execution_id = Len(acc.executions) + 1,
            !.bids[i].status = "winning",
            !.agents[bid.from_agent_id].credit_balance = @ - bid.amount,
            !.consumed_supply = Consume(@, requirements, market_states),
            !.price_discovery = Discover(@, requirements, market_states,
                                         bid.amount, bundle.duration_seconds)]
     ELSE [acc EXCEPT !.bids[i].status = "outbid"]

RECURSIVE ClearBids(_, _, _)
ClearBids(pending_bids, acc, market_states) ==
  IF pending_bids = <<>> THEN acc
  ELSE ClearBids(Tail(pending_bids), ProcessBid(acc, Head(pending_bids), market_states),
                 market_states)

\* The MarketState rows after the cycle: utilization is what was consumed;
\* the price is replaced where capacity-seconds were sold.
UpdateMarket(market_states_objs, consumed_supply, price_discovery) ==
  [rt \in DOMAIN market_states_objs |->
     [market_states_objs[rt] EXCEPT
        !.current_utilization = consumed_supply[rt],
        !.current_market_price =
          IF price_discovery[rt].total_capacity_seconds > 0
          THEN [num |-> price_discovery[rt].total_credits,
                den |-> price_discovery[rt].total_capacity_seconds]
          ELSE @]]

(***************************************************************************)
(* Rows.                                                                   *)
(***************************************************************************)
NewAgent(credit_balance, spawn_lineage) ==
  [credit_balance |-> credit_balance, status |-> "alive",
   total_credits_earned |-> 0, total_credits_spent |-> 0,
   spawn_lineage |-> spawn_lineage]

\* A Transaction row; memo_prompt is the prompt id a memo quotes, else 0.
NewTransaction(from_entity_id, to_entity_id, amount, memo, memo_prompt) ==
  [from_entity_id |-> from_entity_id, to_entity_id |-> to_entity_id,
   amount |-> amount, memo |-> memo, memo_prompt |-> memo_prompt]

NewBid(from_agent_id, resource_bundle_id, amount, status, execution_id, timestamp) ==
  [from_agent_id |-> from_agent_id, resource_bundle_id |-> resource_bundle_id,
   amount |-> amount, status |-> status, execution_id |-> execution_id,
   timestamp |-> timestamp]

\* cycle_log before the first allocation cycle.
NoCycle ==
  [ran |-> FALSE, pending_bids |-> <<>>, published |-> {}, raised |-> "none"]

\* The events run_allocation_cycle hands to nc.publish, with the fields the
\* properties read; a field an event class does not have holds its zero.
BidRejected(agent_id) ==
  [subject |-> "system.market.bid_rejected", bid_id |-> 0, agent_id |-> agent_id,
   status |-> "", resource_type |-> "", new_price |-> [num |-> 0, den |-> 1]]

BidProcessed(bid_id, agent_id, status) ==
  [subject |-> "system.market.bid_processed", bid_id |-> bid_id,
   agent_id |-> agent_id, status |-> status, resource_type |-> "",
   new_price |-> [num |-> 0, den |-> 1]]

PriceDiscovered(resource_type, new_price) ==
  [subject |-> "system.market.price_discovered", bid_id |-> 0, agent_id |-> "",
   status |-> "", resource_type |-> resource_type, new_price |-> new_price]

\* The events published when the loop has processed the first n bids of
\* pending_bids, cleared being the bids of the session after them: a rejected
\* bid publishes bid_rejected, and every bid publishes bid_processed.
BidEvents(pending_bids, cleared, n) ==
  UNION {LET bid == cleared[pending_bids[k]]
         IN {BidProcessed(pending_bids[k], bid.from_agent_id, bid.status)}
              \cup IF bid.status = "outbid"
                   THEN {BidRejected(bid.from_agent_id)} ELSE {}
         : k \in 1 .. n}

\* The events published by the loop over the MarketState rows: one for every
\* resource whose price was discovered.
PriceEvents(market_states_objs, price_discovery) ==
  {PriceDiscovered(rt, market_states_objs[rt].current_market_price) :
     rt \in {r \in DOMAIN market_states_objs :
               price_discovery[r].total_capacity_seconds > 0}}

(***************************************************************************)
(* main(): init_db, seed_market_state, seed_genesis_agent.                 *)
(***************************************************************************)
Init ==
  /\ agents = ("genesis" :> NewAgent(GENESIS_CREDITS, <<>>))
  /\ workspaces = {"genesis"}
  /\ bids = <<>>
  /\ executions = <<>>
  /\ transactions = <<>>
  /\ market = SeedMarket
  /\ prompts = <<>>
  /\ responses = <<>>
  /\ pc = "boot"
  /\ winning_bids = <<>>
  /\ pending_prompts = <<>>
  /\ cycle_log = NoCycle
  /\ committed = Tables
  /\ crashes = 0
  /\ identity_map = NothingLoaded
  /\ directories = ("genesis" :> "written")

\* main(): when no bid is completed, bootstrap_genesis_execution makes a
\* winning bid and its execution for genesis and debits the bid; then the
\* API server and the loop start.
Bootstrap ==
  /\ UNCHANGED directories
  /\ pc = "boot"
  /\ IF \E i \in Rows(bids) : bids[i].status = "completed"
     THEN UNCHANGED <<agents, bids, executions>>
     ELSE /\ executions' = Append(executions,
                [agent_id |-> "genesis", resource_bundle_id |-> "bootstrap",
                 status |-> "PENDING", exit_code |-> -1])
          /\ bids' = Append(bids, NewBid("genesis", "bootstrap", BOOTSTRAP_BID,
                                          "winning", Len(executions) + 1,
                                          Len(bids) + 1))
          /\ agents' = [agents EXCEPT !["genesis"].credit_balance = @ - BOOTSTRAP_BID]
  /\ pc' = "allocate"
  /\ UNCHANGED <<workspaces, transactions, market, prompts, responses,
                 winning_bids, pending_prompts, cycle_log>>
  /\ Commit
  /\ UNCHANGED crashes
  /\ identity_map' = NothingLoaded

(***************************************************************************)
(* AllocationScheduler                                                     *)
(***************************************************************************)
PlaceBid(agent_id, bundle_id, amount) ==
  /\ UNCHANGED directories
  /\ pc # "boot"
  /\ NoOpenWrite
  /\ agent_id \in DOMAIN agents
  /\ bundle_id \in DOMAIN ResourceBundles
  /\ ~(agents[agent_id].credit_balance < amount)
  /\ bids' = Append(bids, NewBid(agent_id, bundle_id, amount, "pending", 0,
                                  Len(bids) + 1))
  /\ UNCHANGED <<agents, workspaces, executions, transactions, market, prompts,
                 responses, pc, winning_bids, pending_prompts, cycle_log>>
  /\ Commit
  /\ UNCHANGED <<crashes, identity_map>>

\* The state run_allocation_cycle commits when the query returned the pending
\* bids in the order query_result.
AllocationResult(query_result) ==
  LET pending_bids == SortByAmount(query_result, bids)
      market_states == [rt \in DOMAIN market |-> market[rt].available_supply]
      start == [agents |-> agents, bids |-> bids, executions |-> executions,
                consumed_supply |-> [rt \in DOMAIN market_states |-> 0],
                price_discovery |->
                  [rt \in ResourceType |->
                     [total_credits |-> 0, total_capacity_seconds |-> 0]]]
      end == ClearBids(pending_bids, start, market_states)
      updated == UpdateMarket(market, end.consumed_supply, end.price_discovery)
  IN [agents |-> end.agents, bids |-> end.bids, executions |-> end.executions,
      market |-> updated,
      pending_bids |-> pending_bids,
      published |-> BidEvents(pending_bids, end.bids, Len(pending_bids))
                      \cup PriceEvents(updated, end.price_discovery)]

\* The tables of the session when the loop over pending_bids has processed
\* its first n bids: each winner's Execution is flushed, nothing is committed
\* and the MarketState rows are not yet written.
PartialAllocation(query_result, n) ==
  LET pending_bids == SortByAmount(query_result, bids)
      market_states == [rt \in DOMAIN market |-> market[rt].available_supply]
      start == [agents |-> agents, bids |-> bids, executions |-> executions,
                consumed_supply |-> [rt \in DOMAIN market_states |-> 0],
                price_discovery |->
                  [rt \in ResourceType |->
                     [total_credits |-> 0, total_capacity_seconds |-> 0]]]
  IN ClearBids(SubSeq(pending_bids, 1, n), start, market_states)

\* run_allocation_cycle that commits each winner where the code flushes it.
AllocationRaisesCommitted(n) ==
  /\ UNCHANGED directories
  /\ pc = "allocate"
  /\ crashes < MaxCrashes
  /\ \E query_result \in
        QueryOrders({i \in Rows(bids) : bids[i].status = "pending"}) :
       /\ n <= Len(query_result)
       /\ LET partial == PartialAllocation(query_result, n)
          IN /\ agents' = partial.agents
             /\ bids' = partial.bids
             /\ executions' = partial.executions
             /\ cycle_log' =
                  [cycle_log EXCEPT
                     !.published = BidEvents(SortByAmount(query_result, bids),
                                             partial.bids, n),
                     !.raised = "flush"]
  /\ pc' = "aborted"
  /\ crashes' = crashes + 1
  /\ identity_map' = NothingLoaded
  /\ UNCHANGED <<workspaces, transactions, market, prompts, responses,
                 winning_bids, pending_prompts>>
  /\ Commit

\* run_allocation_cycle when a statement of the session raises after n bids
\* (session.flush() for the next winner, or the commit): the events of the n
\* bids are published, nothing catches the exception and nothing is
\* committed.
AllocationRaises(n) ==
  /\ UNCHANGED directories
  /\ pc = "allocate"
  /\ crashes < MaxCrashes
  /\ \E query_result \in
        QueryOrders({i \in Rows(bids) : bids[i].status = "pending"}) :
       /\ n <= Len(query_result)
       /\ LET partial == PartialAllocation(query_result, n)
          IN /\ agents' = partial.agents
             /\ bids' = partial.bids
             /\ executions' = partial.executions
             /\ cycle_log' =
                  [cycle_log EXCEPT
                     !.published = BidEvents(SortByAmount(query_result, bids),
                                             partial.bids, n),
                     !.raised = "flush"]
  /\ pc' = "aborted"
  /\ crashes' = crashes + 1
  /\ UNCHANGED identity_map
  /\ UNCHANGED <<workspaces, transactions, market, prompts, responses,
                 winning_bids, pending_prompts, committed>>

\* run_allocation_cycle when nc.publish raises on the first event of the n-th
\* bid: the bid has its status in the session, the events of the bids before
\* it are published, nothing catches the exception and nothing is committed.
PublishRaises(n) ==
  /\ UNCHANGED directories
  /\ pc = "allocate"
  /\ crashes < MaxCrashes
  /\ \E query_result \in
        QueryOrders({i \in Rows(bids) : bids[i].status = "pending"}) :
       /\ n <= Len(query_result)
       /\ LET partial == PartialAllocation(query_result, n)
          IN /\ agents' = partial.agents
             /\ bids' = partial.bids
             /\ executions' = partial.executions
             /\ cycle_log' =
                  [cycle_log EXCEPT
                     !.published = BidEvents(SortByAmount(query_result, bids),
                                             partial.bids, n - 1),
                     !.raised = "publish"]
  /\ pc' = "aborted"
  /\ crashes' = crashes + 1
  /\ UNCHANGED identity_map
  /\ UNCHANGED <<workspaces, transactions, market, prompts, responses,
                 winning_bids, pending_prompts, committed>>

\* run_allocation_cycle when nc.publish raises on the price_discovered event
\* of the first MarketState row of the loop whose price was discovered, rt:
\* the bids are processed and their events published, the rows before rt have
\* their utilization and rt has its price in the session, and nothing is
\* committed.
PublishPriceRaises(rt) ==
  /\ UNCHANGED directories
  /\ pc = "allocate"
  /\ crashes < MaxCrashes
  /\ \E query_result \in
        QueryOrders({i \in Rows(bids) : bids[i].status = "pending"}) :
       LET result == AllocationResult(query_result)
       IN /\ PriceDiscovered(rt, result.market[rt].current_market_price)
               \in result.published
          /\ \E before \in SUBSET {r \in DOMAIN market :
                                      r # rt /\ result.market[r].current_market_price
                                                  = market[r].current_market_price} :
               market' = [r \in DOMAIN market |->
                            IF r \in before \cup {rt}
                            THEN result.market[r] ELSE market[r]]
          /\ agents' = result.agents
          /\ bids' = result.bids
          /\ executions' = result.executions
          /\ cycle_log' =
               [cycle_log EXCEPT
                  !.published = BidEvents(result.pending_bids, result.bids,
                                          Len(result.pending_bids)),
                  !.raised = "publish"]
  /\ pc' = "aborted"
  /\ crashes' = crashes + 1
  /\ UNCHANGED identity_map
  /\ UNCHANGED <<workspaces, transactions, prompts, responses,
                 winning_bids, pending_prompts, committed>>

\* The exception of the cycle leaves run_system_loop and main(),
\* whose finally closes the session; the process ends and is started again.
AbortCycle ==
  /\ UNCHANGED directories
  /\ pc = "aborted"
  /\ Rollback
  /\ pc' = "boot"
  /\ UNCHANGED <<winning_bids, pending_prompts, cycle_log, crashes>>
  /\ identity_map' = NothingLoaded

\* run_allocation_cycle whose query filters on "not winning, not completed"
\* in place of "pending": it clears the outbid bids again.
RunAllocationCycleRequeue ==
  /\ UNCHANGED directories
  /\ pc = "allocate"
  /\ \E query_result \in
        QueryOrders({i \in Rows(bids) : bids[i].status \in {"pending", "outbid"}}) :
       LET result == AllocationResult(query_result)
       IN /\ agents' = result.agents
          /\ bids' = result.bids
          /\ executions' = result.executions
          /\ market' = result.market
          /\ cycle_log' = [ran |-> TRUE, pending_bids |-> result.pending_bids,
                            published |-> result.published, raised |-> "none"]
  /\ pc' = "select"
  /\ UNCHANGED <<workspaces, transactions, prompts, responses, winning_bids,
                 pending_prompts>>
  /\ Commit
  /\ UNCHANGED crashes
  /\ identity_map' = NothingLoaded

RunAllocationCycle ==
  /\ UNCHANGED directories
  /\ pc = "allocate"
  /\ \E query_result \in
        QueryOrders({i \in Rows(bids) : bids[i].status = "pending"}) :
       LET result == AllocationResult(query_result)
       IN /\ agents' = result.agents
          /\ bids' = result.bids
          /\ executions' = result.executions
          /\ market' = result.market
          /\ cycle_log' = [ran |-> TRUE, pending_bids |-> result.pending_bids,
                            published |-> result.published, raised |-> "none"]
  /\ pc' = "select"
  /\ UNCHANGED <<workspaces, transactions, prompts, responses, winning_bids,
                 pending_prompts>>
  /\ Commit
  /\ UNCHANGED crashes
  /\ identity_map' = NothingLoaded

(***************************************************************************)
(* run_system_loop                                                         *)
(***************************************************************************)
\* agent = bid.agent for the first bid of remaining: the Agent is loaded into
\* the identity map unless it is there already.
LoadAgentOf(remaining) ==
  IF remaining = <<>> \/ bids[Head(remaining)].from_agent_id \in DOMAIN identity_map
  THEN identity_map
  ELSE (bids[Head(remaining)].from_agent_id
          :> agents[bids[Head(remaining)].from_agent_id]) @@ identity_map

\* Step 2 begins: the winning bids are queried, and the loop loads the agent
\* of the first one, writes its env.json and starts its sandbox.
SelectWinningBids ==
  /\ UNCHANGED directories
  /\ pc = "select"
  /\ \E query_result \in
        QueryOrders({i \in Rows(bids) : bids[i].status = "winning"}) :
       /\ winning_bids' = query_result
       /\ identity_map' = LoadAgentOf(query_result)
  /\ pc' = "execute"
  /\ UNCHANGED <<agents, workspaces, bids, executions, transactions, market,
                 prompts, responses, pending_prompts, cycle_log>>
  /\ UNCHANGED <<committed, crashes>>

\* ExecutionSandbox.run_agent before its try block: int(memory_mb) and
\* cpu_seconds * cpu_period raise TypeError on a NULL column.
RunAgentRaises(bundle) ==
  bundle.memory_mb = NULL \/ bundle.cpu_seconds = NULL

\* The body of the loop over winning_bids for one bid, from the return of
\* its sandbox to the start of the next one: without a workspace the bid is
\* skipped; else the sandbox returns exit_code (1 when the container fails
\* or times out), the bid becomes completed and its execution is finalized.
\* Then the agent of the next bid is loaded.
ExecuteBid(exit_code) ==
  /\ UNCHANGED directories
  /\ pc = "execute"
  /\ winning_bids # <<>>
  /\ LET i == Head(winning_bids)
         bid == bids[i]
     IN IF bid.from_agent_id \notin workspaces
        THEN UNCHANGED <<bids, executions>>
        ELSE /\ ~RunAgentRaises(ResourceBundles[bid.resource_bundle_id])
             /\ bids' = [bids EXCEPT ![i].status = "completed"]
             /\ executions' =
                  IF bid.execution_id \in Rows(executions)
                  THEN [executions EXCEPT
                          ![bid.execution_id].status =
                             IF exit_code = 0 THEN "COMPLETED" ELSE "FAILED",
                          ![bid.execution_id].exit_code = exit_code]
                  ELSE executions
  /\ winning_bids' = Tail(winning_bids)
  /\ identity_map' = LoadAgentOf(Tail(winning_bids))
  /\ UNCHANGED <<agents, workspaces, transactions, market, prompts, responses,
                 pc, pending_prompts, cycle_log>>
  /\ UNCHANGED <<committed, crashes>>

\* The body of the loop when an exception is raised outside run_agent's try
\* block: writing env.json, publishing the execution started or terminated
\* event, docker.from_env() in the constructor of the sandbox, or the
\* conversions at the head of run_agent.  Nothing catches
\* it: it leaves run_system_loop and main(), whose finally closes the
\* session; the process ends and is started again.
ExecuteRaises ==
  /\ UNCHANGED directories
  /\ pc = "execute"
  /\ winning_bids # <<>>
  /\ bids[Head(winning_bids)].from_agent_id \in workspaces
  /\ crashes < MaxCrashes
  /\ Rollback
  /\ crashes' = crashes + 1
  /\ identity_map' = NothingLoaded
  /\ pc' = "boot"
  /\ winning_bids' = <<>>
  /\ UNCHANGED <<pending_prompts, cycle_log>>

\* MarketManager.update_prices
UpdatePrices(states) ==
  [rt \in DOMAIN states |->
     [states[rt] EXCEPT !.current_market_price = ClampPrice(@)]]

\* AttentionManager.get_pending_prompts: ORDER BY bid_amount DESC alone, so
\* prompts of equal bid come in any order.
PendingPromptOrders ==
  {order \in QueryOrders({p \in Rows(prompts) : prompts[p].status = "pending"}) :
     \A a, b \in Rows(order) :
       a < b => prompts[order[a]].bid_amount >= prompts[order[b]].bid_amount}

\* Steps 3 and 4 started while winning bids are still to be run.
UpdatePricesAndFetchPromptsEarly ==
  /\ UNCHANGED directories
  /\ pc = "execute"
  /\ market' = UpdatePrices(market)
  /\ \E order \in PendingPromptOrders : pending_prompts' = order
  /\ pc' = "attention"
  /\ UNCHANGED <<agents, workspaces, bids, executions, transactions, prompts,
                 responses, winning_bids, cycle_log>>
  /\ UNCHANGED <<committed, crashes, identity_map>>

\* Step 3 and the start of step 4: the prices are clamped and the pending
\* prompts are fetched.
UpdatePricesAndFetchPrompts ==
  /\ UNCHANGED directories
  /\ pc = "execute"
  /\ winning_bids = <<>>
  /\ market' = UpdatePrices(market)
  /\ \E order \in PendingPromptOrders : pending_prompts' = order
  /\ pc' = "attention"
  /\ UNCHANGED <<agents, workspaces, bids, executions, transactions, prompts,
                 responses, winning_bids, cycle_log>>
  /\ UNCHANGED <<committed, crashes, identity_map>>

(***************************************************************************)
(* AttentionManager                                                        *)
(***************************************************************************)
CreditsAwarded(interesting, useful, understandable) ==
  interesting * ATTENTION_CONVERSION_RATES.interesting
    + useful * ATTENTION_CONVERSION_RATES.useful
    + understandable * ATTENTION_CONVERSION_RATES.understandable

ValidScores(scores) == \A s \in 1 .. 3 : 0 <= scores[s] /\ scores[s] <= 10

\* reward_prompt raises for these arguments.
RewardFails(prompt_id, scores) ==
  \/ ~ValidScores(scores)
  \/ prompt_id \notin Rows(prompts)
  \/ prompts[prompt_id].status = "responded"
  \/ prompts[prompt_id].from_agent_id \notin DOMAIN agents

\* The effects of a reward_prompt that does not raise; agent is the Agent
\* object the session returns for the prompt's agent.  The flush writes the
\* two attributes that were set.
Reward(prompt_id, scores, agent) ==
  LET prompt == prompts[prompt_id]
      credits_awarded == CreditsAwarded(scores[1], scores[2], scores[3])
  IN /\ responses' = Append(responses,
          [prompt_id |-> prompt_id, interesting |-> scores[1],
           useful |-> scores[2], understandable |-> scores[3],
           credits_awarded |-> credits_awarded])
     /\ agents' = [agents EXCEPT
          ![prompt.from_agent_id].credit_balance =
             agent.credit_balance + credits_awarded,
          ![prompt.from_agent_id].total_credits_earned =
             agent.total_credits_earned + credits_awarded]
     /\ transactions' = transactions \o
          <<NewTransaction("human", prompt.from_agent_id, credits_awarded,
                           "Reward for prompt", prompt_id),
            NewTransaction("attention_escrow", "system", prompt.bid_amount,
                           "Finalized bid payment for prompt", prompt_id)>>
     /\ prompts' = [prompts EXCEPT ![prompt_id].status = "responded"]

\* submit_prompt without its comparison of the balance with the bid.
SubmitPromptUnfunded(agent_id, execution_id, bid_amount) ==
  /\ UNCHANGED directories
  /\ pc # "boot"
  /\ NoOpenWrite
  /\ ~(bid_amount < 0)
  /\ execution_id \in Rows(executions)
  /\ ResourceBundles[executions[execution_id].resource_bundle_id].attention_share > 0
  /\ agent_id \in DOMAIN agents
  /\ agents' = [agents EXCEPT
       ![agent_id].credit_balance = @ - bid_amount,
       ![agent_id].total_credits_spent = @ + bid_amount]
  /\ transactions' = Append(transactions,
       NewTransaction(agent_id, "attention_escrow", bid_amount,
                      "Bid for attention slot", 0))
  /\ prompts' = Append(prompts,
       [from_agent_id |-> agent_id, execution_id |-> execution_id,
        bid_amount |-> bid_amount, status |-> "pending",
        timestamp |-> Len(prompts) + 1])
  /\ UNCHANGED <<workspaces, bids, executions, market, responses, pc,
                 winning_bids, pending_prompts, cycle_log>>
  /\ Commit
  /\ UNCHANGED <<crashes, identity_map>>

\* POST /human/prompt
SubmitPrompt(agent_id, execution_id, bid_amount) ==
  /\ UNCHANGED directories
  /\ pc # "boot"
  /\ NoOpenWrite
  /\ ~(bid_amount < 0)
  /\ execution_id \in Rows(executions)
  /\ ResourceBundles[executions[execution_id].resource_bundle_id].attention_share > 0
  /\ agent_id \in DOMAIN agents
  /\ ~(agents[agent_id].credit_balance < bid_amount)
  /\ agents' = [agents EXCEPT
       ![agent_id].credit_balance = @ - bid_amount,
       ![agent_id].total_credits_spent = @ + bid_amount]
  /\ transactions' = Append(transactions,
       NewTransaction(agent_id, "attention_escrow", bid_amount,
                      "Bid for attention slot", 0))
  /\ prompts' = Append(prompts,
       [from_agent_id |-> agent_id, execution_id |-> execution_id,
        bid_amount |-> bid_amount, status |-> "pending",
        timestamp |-> Len(prompts) + 1])
  /\ UNCHANGED <<workspaces, bids, executions, market, responses, pc,
                 winning_bids, pending_prompts, cycle_log>>
  /\ Commit
  /\ UNCHANGED <<crashes, identity_map>>

\* POST /human/reward
RewardPrompt(prompt_id, scores) ==
  /\ UNCHANGED directories
  /\ pc # "boot"
  /\ NoOpenWrite
  /\ ~RewardFails(prompt_id, scores)
  /\ Reward(prompt_id, scores, agents[prompts[prompt_id].from_agent_id])
  /\ UNCHANGED <<workspaces, bids, executions, market, pc, winning_bids,
                 pending_prompts, cycle_log>>
  /\ Commit
  /\ UNCHANGED <<crashes, identity_map>>

\* What one call of input() gives the loop that asks for the scores:
\* end-of-input (EOFError), three words that are not numbers (ValueError), or
\* a line of numbers.
EndOfInput == <<"eof", <<>>>>

OperatorEntries ==
  {EndOfInput, <<"words", <<>>>>, <<"numbers", <<8, 9, 7>>>>,
   <<"numbers", <<11, 5, 5>>>>, <<"numbers", <<5, 5>>>>}

\* The loop asks again.
AskAgain == <<>>

\* One round of the loop that asks for the scores: three numbers in 0 .. 10
\* are the scores; on EOFError or ValueError the scores are (5, 5, 5) when
\* stdin is not a terminal; in every other case the loop asks again.
ReadScores(entry, isatty) ==
  IF entry[1] = "numbers"
  THEN IF Len(entry[2]) = 3 /\ ValidScores(entry[2]) THEN entry[2] ELSE AskAgain
  ELSE IF ~isatty THEN <<5, 5, 5>> ELSE AskAgain

\* Step 4, one prompt of the fetched list: the operator gives the scores
\* (the loop asks until they are in 0 .. 10) and the prompt is rewarded.  The
\* Prompt that reward_prompt queries is the object the fetch loaded, whose
\* status is PENDING, and the Agent is the loaded object if there is one.
RewardNextPrompt(scores) ==
  /\ UNCHANGED directories
  /\ pc = "attention"
  /\ pending_prompts # <<>>
  /\ ValidScores(scores)
  /\ LET prompt_id == Head(pending_prompts)
         agent_id == prompts[prompt_id].from_agent_id
         credits_awarded == CreditsAwarded(scores[1], scores[2], scores[3])
     IN /\ Reward(prompt_id, scores, Loaded(agent_id))
        /\ identity_map' =
             (agent_id :> [Loaded(agent_id) EXCEPT
                             !.credit_balance = @ + credits_awarded,
                             !.total_credits_earned = @ + credits_awarded])
               @@ identity_map
  /\ pending_prompts' = Tail(pending_prompts)
  /\ UNCHANGED <<workspaces, bids, executions, market, pc, winning_bids,
                 cycle_log>>
  /\ UNCHANGED <<committed, crashes>>

\* Step 4 when reward_prompt raises after it flushed the ACTIVE status (a
\* statement of the flush of the Response or of the query of the Agent
\* fails): nothing catches the exception and the commit at the end of the
\* cycle is not reached.
RewardRaises ==
  /\ UNCHANGED directories
  /\ pc = "attention"
  /\ pending_prompts # <<>>
  /\ crashes < MaxCrashes
  /\ prompts' = [prompts EXCEPT ![Head(pending_prompts)].status = "active"]
  /\ pc' = "aborted"
  /\ crashes' = crashes + 1
  /\ pending_prompts' = <<>>
  /\ UNCHANGED <<agents, workspaces, bids, executions, transactions, market,
                 responses, winning_bids, cycle_log, committed, identity_map>>

\* Step 5 with the query credit_balance < 0.
DeathSweepNegative(table) ==
  [a \in DOMAIN table |->
     IF table[a].credit_balance < 0 /\ table[a].status = "alive"
     THEN [table[a] EXCEPT !.status = "dead"]
     ELSE table[a]]

\* Step 5: every agent the query credit_balance <= 0, status ALIVE returns
\* is made DEAD.
DeathSweep(table) ==
  [a \in DOMAIN table |->
     IF table[a].credit_balance <= 0 /\ table[a].status = "alive"
     THEN [table[a] EXCEPT !.status = "dead"]
     ELSE table[a]]

\* Step 5: the death check and the commit; the next cycle follows.
DeathCheck ==
  /\ UNCHANGED directories
  /\ pc = "attention"
  /\ pending_prompts = <<>>
  /\ agents' = DeathSweep(agents)
  /\ pc' = "allocate"
  /\ UNCHANGED <<workspaces, bids, executions, transactions, market, prompts,
                 responses, winning_bids, pending_prompts, cycle_log>>
  /\ Commit
  /\ UNCHANGED crashes
  /\ identity_map' = NothingLoaded

(***************************************************************************)
(* EconomicEngine                                                          *)
(***************************************************************************)
\* transfer_credits that never credits the destination.
TransferCreditsDebitOnly(from_id, to_id, amount) ==
  /\ UNCHANGED directories
  /\ pc # "boot"
  /\ NoOpenWrite
  /\ ~(amount <= 0)
  /\ from_id \in DOMAIN agents
  /\ to_id # "system" => to_id \in DOMAIN agents
  /\ ~(agents[from_id].credit_balance < amount)
  /\ LET debited == [agents EXCEPT
                       ![from_id].credit_balance = @ - amount,
                       ![from_id].total_credits_spent = @ + amount]
     IN agents' = debited
  /\ transactions' = Append(transactions,
       NewTransaction(from_id, to_id, amount, "transfer", 0))
  /\ UNCHANGED <<workspaces, bids, executions, market, prompts, responses, pc,
                 winning_bids, pending_prompts, cycle_log>>
  /\ Commit
  /\ UNCHANGED <<crashes, identity_map>>

\* POST /economic/transfer
TransferCredits(from_id, to_id, amount) ==
  /\ UNCHANGED directories
  /\ pc # "boot"
  /\ NoOpenWrite
  /\ ~(amount <= 0)
  /\ from_id \in DOMAIN agents
  /\ to_id # "system" => to_id \in DOMAIN agents
  /\ ~(agents[from_id].credit_balance < amount)
  /\ LET debited == [agents EXCEPT
                       ![from_id].credit_balance = @ - amount,
                       ![from_id].total_credits_spent = @ + amount]
     IN agents' = IF to_id # "system"
                  THEN [debited EXCEPT
                          ![to_id].credit_balance = @ + amount,
                          ![to_id].total_credits_earned = @ + amount]
                  ELSE debited
  /\ transactions' = Append(transactions,
       NewTransaction(from_id, to_id, amount, "transfer", 0))
  /\ UNCHANGED <<workspaces, bids, executions, market, prompts, responses, pc,
                 winning_bids, pending_prompts, cycle_log>>
  /\ Commit
  /\ UNCHANGED <<crashes, identity_map>>

(***************************************************************************)
(* genesis                                                                 *)
(***************************************************************************)
\* spawn_child_agent that debits the parent the fee alone.
SpawnChildAgentFeeOnly(parent_id, initial_credits) ==
  /\ pc # "boot"
  /\ NoOpenWrite
  /\ parent_id \in DOMAIN agents
  /\ LET total_cost == SPAWN_COST + initial_credits
         child_id == AgentIds[Cardinality(DOMAIN directories) + 1]
         parent == agents[parent_id]
     IN /\ ~(parent.credit_balance < total_cost)
        /\ agents' =
             [agents EXCEPT
                ![parent_id].credit_balance = @ - SPAWN_COST,
                ![parent_id].total_credits_spent = @ + total_cost]
             @@ (child_id :> NewAgent(initial_credits,
                                      <<parent_id>> \o parent.spawn_lineage))
        /\ workspaces' = workspaces \cup {child_id}
        /\ directories' = directories @@ (child_id :> "written")
        /\ transactions' = transactions \o
             <<NewTransaction(parent_id, "SYSTEM", SPAWN_COST, "Agent spawn fee", 0),
               NewTransaction(parent_id, child_id, initial_credits,
                              "Initial credits for child agent", 0)>>
  /\ UNCHANGED <<bids, executions, market, prompts, responses, pc,
                 winning_bids, pending_prompts, cycle_log>>
  /\ Commit
  /\ UNCHANGED <<crashes, identity_map>>

\* spawn_child_agent that gives the child the parent alone as lineage.
SpawnChildAgentShortLineage(parent_id, initial_credits) ==
  /\ pc # "boot"
  /\ NoOpenWrite
  /\ parent_id \in DOMAIN agents
  /\ LET total_cost == SPAWN_COST + initial_credits
         child_id == AgentIds[Cardinality(DOMAIN directories) + 1]
         parent == agents[parent_id]
     IN /\ ~(parent.credit_balance < total_cost)
        /\ agents' =
             [agents EXCEPT
                ![parent_id].credit_balance = @ - total_cost,
                ![parent_id].total_credits_spent = @ + total_cost]
             @@ (child_id :> NewAgent(initial_credits,
                                      <<parent_id>>))
        /\ workspaces' = workspaces \cup {child_id}
        /\ directories' = directories @@ (child_id :> "written")
        /\ transactions' = transactions \o
             <<NewTransaction(parent_id, "SYSTEM", SPAWN_COST, "Agent spawn fee", 0),
               NewTransaction(parent_id, child_id, initial_credits,
                              "Initial credits for child agent", 0)>>
  /\ UNCHANGED <<bids, executions, market, prompts, responses, pc,
                 winning_bids, pending_prompts, cycle_log>>
  /\ Commit
  /\ UNCHANGED <<crashes, identity_map>>

\* POST /social/spawn
SpawnChildAgent(parent_id, initial_credits) ==
  /\ pc # "boot"
  /\ NoOpenWrite
  /\ parent_id \in DOMAIN agents
  /\ LET total_cost == SPAWN_COST + initial_credits
         child_id == AgentIds[Cardinality(DOMAIN directories) + 1]
         parent == agents[parent_id]
     IN /\ ~(parent.credit_balance < total_cost)
        /\ agents' =
             [agents EXCEPT
                ![parent_id].credit_balance = @ - total_cost,
                ![parent_id].total_credits_spent = @ + total_cost]
             @@ (child_id :> NewAgent(initial_credits,
                                      <<parent_id>> \o parent.spawn_lineage))
        /\ workspaces' = workspaces \cup {child_id}
        /\ directories' = directories @@ (child_id :> "written")
        /\ transactions' = transactions \o
             <<NewTransaction(parent_id, "SYSTEM", SPAWN_COST, "Agent spawn fee", 0),
               NewTransaction(parent_id, child_id, initial_credits,
                              "Initial credits for child agent", 0)>>
  /\ UNCHANGED <<bids, executions, market, prompts, responses, pc,
                 winning_bids, pending_prompts, cycle_log>>
  /\ Commit
  /\ UNCHANGED <<crashes, identity_map>>

\* spawn_child_agent that commits the debit, the fee and the child where it
\* flushes them, before it copies the files.
SpawnRaisesCommitted(parent_id, initial_credits) ==
  /\ pc # "boot"
  /\ NoOpenWrite
  /\ parent_id \in DOMAIN agents
  /\ LET total_cost == SPAWN_COST + initial_credits
         child_id == AgentIds[Cardinality(DOMAIN directories) + 1]
         parent == agents[parent_id]
     IN /\ ~(parent.credit_balance < total_cost)
        /\ agents' =
             [agents EXCEPT
                ![parent_id].credit_balance = @ - total_cost,
                ![parent_id].total_credits_spent = @ + total_cost]
             @@ (child_id :> NewAgent(initial_credits,
                                      <<parent_id>> \o parent.spawn_lineage))
        /\ workspaces' = workspaces \cup {child_id}
        /\ directories' = directories @@ (child_id :> "partial")
        /\ transactions' = Append(transactions,
             NewTransaction(parent_id, "SYSTEM", SPAWN_COST, "Agent spawn fee", 0))
  /\ UNCHANGED <<bids, executions, market, prompts, responses, pc,
                 winning_bids, pending_prompts, cycle_log>>
  /\ Commit
  /\ UNCHANGED <<crashes, identity_map>>

\* POST /social/spawn when copying main.py / services.py or writing a file
\* of the payload raises: the parent was debited and the workspace and the
\* child were flushed, nothing was committed, and the session of the request
\* ends without a commit.  The directory that _create_agent_with_workspace
\* made stays on the disk without the files.
SpawnRaises(parent_id, initial_credits) ==
  /\ pc # "boot"
  /\ NoOpenWrite
  /\ parent_id \in DOMAIN agents
  /\ ~(agents[parent_id].credit_balance < SPAWN_COST + initial_credits)
  /\ directories' =
       directories @@ (AgentIds[Cardinality(DOMAIN directories) + 1] :> "partial")
  /\ UNCHANGED <<agents, workspaces, bids, executions, transactions, market,
                 prompts, responses, pc, winning_bids, pending_prompts,
                 cycle_log, committed, crashes, identity_map>>

(***************************************************************************)
(* The program: the driver's steps and the requests of the API.            *)
(***************************************************************************)
\* The requests accepted so far that added a row.
Requests ==
  Cardinality({i \in Rows(bids) : bids[i].resource_bundle_id # "bootstrap"})
    + Len(prompts)
    + Cardinality({t \in Rows(transactions) : transactions[t].memo = "transfer"})
    + (Cardinality(DOMAIN directories) - 1)

Accepted == Requests < MaxRequests

Next ==
  \/ Bootstrap
  \/ RunAllocationCycle
  \/ \E n \in 0 .. MaxRequests : AllocationRaises(n)
  \/ \E n \in 1 .. MaxRequests : PublishRaises(n)
  \/ \E rt \in ResourceType : PublishPriceRaises(rt)
  \/ AbortCycle
  \/ SelectWinningBids
  \/ ExecuteRaises
  \/ \E exit_code \in {0, 1} : ExecuteBid(exit_code)
  \/ UpdatePricesAndFetchPrompts
  \/ \E entry \in OperatorEntries, isatty \in BOOLEAN :
       /\ ReadScores(entry, isatty) # AskAgain
       /\ RewardNextPrompt(ReadScores(entry, isatty))
  \/ RewardRaises
  \/ DeathCheck
  \/ \E p \in PromptIds, scores \in Scores : RewardPrompt(p, scores)
  \/ /\ Accepted
     /\ \E a \in DOMAIN agents, request \in BidRequests :
          PlaceBid(a, request[1], request[2])
  \/ /\ Accepted
     /\ \E a \in DOMAIN agents, e \in Rows(executions), bid_amount \in PromptBids :
          SubmitPrompt(a, e, bid_amount)
  \/ /\ Accepted
     /\ \E from_id \in AgentNames, to_id \in TransferTargets,
           amount \in TransferAmounts :
          TransferCredits(from_id, to_id, amount)
  \/ /\ Accepted
     /\ \E parent_id \in AgentNames, initial_credits \in InitialCredits :
          SpawnChildAgent(parent_id, initial_credits)
  \/ /\ Accepted
     /\ \E parent_id \in AgentNames, initial_credits \in InitialCredits :
          SpawnRaises(parent_id, initial_credits)

Spec == Init /\ [][Next]_vars

(***************************************************************************)
(* Properties.                                                             *)
(***************************************************************************)
\* The step of the driver that is run_allocation_cycle.
AllocationStep == pc = "allocate" /\ pc' = "select"

\* The bids the cycle clears, and those of them that it makes winning.
Cleared == {i \in Rows(bids) : bids[i].status = "pending"}

Winners == {i \in Cleared : bids'[i].status = "winning"}

Request(i) == Requirements(ResourceBundles[bids[i].resource_bundle_id])

Duration(i) == ResourceBundles[bids[i].resource_bundle_id].duration_seconds

SystemSinks == {"system", "SYSTEM"}

AmountsOf(table, S) == SumOver(S, [t \in S |-> table[t].amount])

RequestedBy(S, k) == SumOver(S, [i \in S |-> Request(i)[k]])

\* C1: after any sequence of calls every agent's balance is >= 0.
C1_NoNegativeBalance ==
  \A a \in DOMAIN agents : agents[a].credit_balance >= 0

\* C2: after every committed cycle the agents' balances plus the credits held
\* in the attention escrow equal the credits minted (the genesis seed and the
\* HUMAN rewards) minus the credits burned (Transactions to SYSTEM).
C2_Conservation ==
  LET T == Rows(transactions)
      into_escrow == {t \in T : transactions[t].to_entity_id = "attention_escrow"}
      out_of_escrow == {t \in T : transactions[t].from_entity_id = "attention_escrow"}
      rewards == {t \in T : transactions[t].from_entity_id = "human"}
      burns == {t \in T : transactions[t].to_entity_id \in SystemSinks}
      balances == SumOver(DOMAIN agents,
                          [a \in DOMAIN agents |-> agents[a].credit_balance])
  IN (pc = "allocate" /\ cycle_log.ran) =>
       balances + AmountsOf(transactions, into_escrow)
                - AmountsOf(transactions, out_of_escrow)
         = GENESIS_CREDITS + AmountsOf(transactions, rewards)
                           - AmountsOf(transactions, burns)

\* C3: in an allocation cycle the debits of the winners equal the amounts of
\* the Transactions from an agent to SYSTEM that the cycle appends.
C3_AuctionAccounting ==
  [][AllocationStep =>
       LET appended == {t \in Rows(transactions') \ Rows(transactions) :
                          /\ transactions'[t].from_entity_id \in DOMAIN agents
                          /\ transactions'[t].to_entity_id \in SystemSinks}
       IN SumOver(DOMAIN agents,
                  [a \in DOMAIN agents |->
                     agents[a].credit_balance - agents'[a].credit_balance])
            = AmountsOf(transactions', appended)]_vars

\* C4: a pending bid, in clearing order, becomes winning iff every resource's
\* consumed amount plus its request is within the supply and the agent's
\* balance at that moment covers the bid, and outbid otherwise; a bid asking
\* more than a supply is outbid.
C4_AdmissionRule ==
  [][AllocationStep =>
       LET order == cycle_log'.pending_bids
       IN /\ Len(order) = Cardinality(Cleared)
          /\ {order[n] : n \in Rows(order)} = Cleared
          /\ \A n \in Rows(order) :
               LET i == order[n]
                   earlier == {order[m] : m \in 1 .. (n - 1)} \cap Winners
                   paid == {j \in earlier :
                              bids[j].from_agent_id = bids[i].from_agent_id}
                   balance == agents[bids[i].from_agent_id].credit_balance
                                - AmountsOf(bids, paid)
                   fits == \A k \in ResourceType :
                             RequestedBy(earlier, k) + Request(i)[k]
                               <= market[k].available_supply
               IN /\ bids'[i].status =
                       IF fits /\ balance >= bids[i].amount
                       THEN "winning" ELSE "outbid"
                  /\ (\E k \in ResourceType :
                        Request(i)[k] > market[k].available_supply)
                       => bids'[i].status = "outbid"]_vars

C4_Witness ==
  /\ pc = "select"
  /\ \E a, b \in Rows(cycle_log.pending_bids) :
       /\ a < b
       /\ bids[cycle_log.pending_bids[a]].status = "winning"
       /\ bids[cycle_log.pending_bids[a]].resource_bundle_id = "cpu6"
       /\ bids[cycle_log.pending_bids[b]].status = "outbid"
       /\ bids[cycle_log.pending_bids[b]].resource_bundle_id = "attn"

\* C5: after an allocation cycle each utilization is the sum of the winners'
\* requests and within the supply; with no pending bid it is zero, the prices
\* are unchanged and no transaction is appended.
C5_Utilization ==
  [][AllocationStep =>
       \A k \in ResourceType :
         /\ market'[k].current_utilization = RequestedBy(Winners, k)
         /\ market'[k].current_utilization <= market'[k].available_supply
         /\ Cleared = {} =>
              /\ market'[k].current_utilization = 0
              /\ market'[k].current_market_price = market[k].current_market_price
              /\ transactions' = transactions]_vars

C5_Witness ==
  /\ pc = "select"
  /\ Len(cycle_log.pending_bids) = 2
  /\ \A n \in Rows(cycle_log.pending_bids) :
       bids[cycle_log.pending_bids[n]].status = "winning"
  /\ market["cpu"].current_utilization = market["cpu"].available_supply

\* C6: a rejected bid takes nothing: it has no Execution, the executions
\* created are the winners', the utilization counts the winners alone and
\* every agent is debited its winning bids and nothing else.
C6_AllOrNothing ==
  [][AllocationStep =>
       /\ \A i \in Cleared \ Winners :
            bids'[i].status = "outbid" /\ bids'[i].execution_id = 0
       /\ Len(executions') = Len(executions) + Cardinality(Winners)
       /\ \A k \in ResourceType :
            /\ market'[k].current_utilization
                 + RequestedBy(Cleared \ Winners, k) = RequestedBy(Cleared, k)
            /\ Winners = {} => market'[k].current_utilization = 0
       /\ \A a \in DOMAIN agents :
            LET won == {i \in Winners : bids[i].from_agent_id = a}
            IN agents'[a].credit_balance
                 = agents[a].credit_balance - AmountsOf(bids, won)]_vars

C6_Witness ==
  /\ pc = "select"
  /\ \E n \in Rows(cycle_log.pending_bids) :
       /\ bids[cycle_log.pending_bids[n]].status = "outbid"
       /\ bids[cycle_log.pending_bids[n]].resource_bundle_id = "over"

\* C7: the cycle clears the bids by amount descending and, among equal
\* amounts, earliest timestamp first; of two bids that compete for capacity
\* that admits one, the one that comes first in that order wins.
C7_ClearingOrder ==
  [][AllocationStep =>
       LET order == cycle_log'.pending_bids
           First(i, j) ==
             \/ bids[i].amount > bids[j].amount
             \/ /\ bids[i].amount = bids[j].amount
                /\ bids[i].timestamp < bids[j].timestamp
           Alone(i) == \A k \in ResourceType :
                         Request(i)[k] <= market[k].available_supply
           Together(i, j) == \A k \in ResourceType :
                               Request(i)[k] + Request(j)[k]
                                 <= market[k].available_supply
       IN /\ \A a, b \in Rows(order) : a < b => First(order[a], order[b])
          /\ \A i, j \in Cleared :
               ( /\ Cardinality(Cleared) = 2
                 /\ First(i, j)
                 /\ Alone(i) /\ Alone(j) /\ ~Together(i, j)
                 /\ agents[bids[i].from_agent_id].credit_balance >= bids[i].amount )
               => bids'[i].status = "winning" /\ bids'[j].status = "outbid"]_vars

\* C8: every winning or completed bid refers to an existing Execution and
\* every Execution is referred to by exactly one bid.
C8_BidExecutionCoupling ==
  /\ \A i \in Rows(bids) :
       bids[i].status \in {"winning", "completed"}
         => bids[i].execution_id \in Rows(executions)
  /\ \A e \in Rows(executions) :
       Cardinality({i \in Rows(bids) : bids[i].execution_id = e}) = 1

C8_Witness ==
  \E i, j \in Rows(bids) :
    /\ bids[i].resource_bundle_id # "bootstrap" /\ bids[i].status = "completed"
    /\ bids[j].resource_bundle_id # "bootstrap" /\ bids[j].status = "winning"

\* C9: a bid's committed status changes only pending -> winning, pending ->
\* outbid and winning -> completed; an allocation cycle commits none of the
\* bids that were pending at its start as pending.
C9_BidLifecycle ==
  [][/\ Len(committed'.bids) >= Len(committed.bids)
     /\ \A i \in Rows(committed.bids) :
          \/ committed'.bids[i].status = committed.bids[i].status
          \/ <<committed.bids[i].status, committed'.bids[i].status>>
               \in {<<"pending", "winning">>, <<"pending", "outbid">>,
                    <<"winning", "completed">>}
     /\ AllocationStep =>
          \A i \in Cleared : committed'.bids[i].status \in {"winning", "outbid"}]_vars

C9_Witness ==
  /\ cycle_log.ran
  /\ pc = "select"
  /\ \E i, j \in Rows(bids) :
       /\ bids[i].status = "outbid" /\ bids[j].status = "completed"
       /\ bids[j].resource_bundle_id # "bootstrap"
       /\ \A n \in Rows(cycle_log.pending_bids) :
            cycle_log.pending_bids[n] \notin {i, j}

\* C10: after an allocation cycle the price of a resource that winners
\* requested with positive capacity-seconds is the sum of their full bid
\* amounts over the sum of their request x duration; the price of a resource
\* no winner requested is unchanged.
C10_PriceDiscovery ==
  [][AllocationStep =>
       \A k \in ResourceType :
         LET requesting == {i \in Winners : Request(i)[k] > 0}
             capacity_seconds ==
               SumOver(requesting,
                       [i \in requesting |-> Request(i)[k] * Duration(i)])
         IN /\ capacity_seconds > 0 =>
                 PriceEq(market'[k].current_market_price,
                         [num |-> AmountsOf(bids, requesting),
                          den |-> capacity_seconds])
            /\ requesting = {} =>
                 market'[k].current_market_price
                   = market[k].current_market_price]_vars

C10_Witness ==
  /\ pc = "select"
  /\ PriceEq(market["cpu"].current_market_price, [num |-> 615, den |-> 14])
  /\ PriceEq(market["tokens"].current_market_price, [num |-> 15, den |-> 2])
  /\ market["attention"].current_market_price = SeedMarket["attention"].current_market_price

\* C11: in every committed state every price is within
\* [MIN_PRICE, MAX_PRICE].
C11_PriceClamping ==
  \A k \in ResourceType :
    /\ PriceLeq(MIN_PRICE, committed.market[k].current_market_price)
    /\ PriceLeq(committed.market[k].current_market_price, MAX_PRICE)

\* C12: when run_allocation_cycle fails while processing its bids, the
\* committed state shows no effect of it: every bid it was processing is
\* committed pending, no Execution is committed, no agent is debited and no
\* utilization or price changes; the session that is closed is left with
\* the committed state, so the next cycle finds the same pending bids.
C12_FailedCycleLeavesNothing ==
  [][/\ (pc = "allocate" /\ pc' = "aborted") =>
          /\ \A i \in Cleared : committed'.bids[i].status = "pending"
          /\ committed'.executions = executions
          /\ committed'.agents = agents
          /\ committed'.market = market
          /\ committed' = committed
     /\ (pc = "aborted" /\ pc' = "boot") =>
          /\ committed' = committed
          /\ Tables' = committed
          /\ {i \in Rows(bids') : bids'[i].status = "pending"}
               = {i \in Rows(committed.bids) : committed.bids[i].status = "pending"}]_vars

C12_Witness ==
  /\ pc = "aborted"
  /\ Len(executions) > Len(committed.executions)
  /\ \E i, j \in Rows(bids) :
       /\ bids[i].status = "winning" /\ committed.bids[i].status = "pending"
       /\ bids[j].status = "pending"
       /\ agents[bids[i].from_agent_id].credit_balance
            < committed.agents[bids[i].from_agent_id].credit_balance

\* The steps of the driver inside one cycle: a sandbox run, a reward of the
\* attention drain, the death sweep.
SandboxStep ==
  pc = "execute" /\ pc' = "execute" /\ winning_bids' # winning_bids

DrainStep ==
  pc = "attention" /\ pc' = "attention" /\ pending_prompts' # pending_prompts

SweepStep == pc = "attention" /\ pc' = "allocate"

\* C13: in a cycle the allocation is committed before the first sandbox run,
\* every sandbox run has returned before the first prompt is rewarded and
\* every reward is applied before the death sweep reads the balances.
C13_StageOrder ==
  [][/\ SandboxStep =>
          /\ cycle_log.ran
          /\ committed.bids[Head(winning_bids)].status = "winning"
          /\ \A n \in Rows(cycle_log.pending_bids) :
               committed.bids[cycle_log.pending_bids[n]].status # "pending"
          /\ responses = committed.responses
     /\ DrainStep =>
          /\ winning_bids = <<>>
          /\ \A i \in Rows(bids) :
               bids[i].status = "winning"
                 => bids[i].from_agent_id \notin workspaces
     /\ SweepStep =>
          /\ winning_bids = <<>> /\ pending_prompts = <<>>
          /\ \A a \in DOMAIN agents :
               agents'[a].status = "dead" =>
                 agents[a].status = "dead" \/ agents[a].credit_balance <= 0]_vars

C13_Witness ==
  /\ pc = "allocate"
  /\ cycle_log.ran
  /\ \E i \in Rows(bids) :
       bids[i].resource_bundle_id # "bootstrap" /\ bids[i].status = "completed"
  /\ \E p \in Rows(prompts) : prompts[p].status = "responded"
  /\ committed = Tables

\* C14: when the driver aborts after a sandbox run has returned, the bid's
\* completed status and the outcome of its Execution are already committed,
\* and the next cycle does not find the bid winning again.
C14_ReentrantCycle ==
  [][(pc \in {"execute", "attention"} /\ pc' = "boot") =>
       \A i \in Rows(bids) :
         bids[i].status = "completed" =>
           /\ committed.bids[i].status = "completed"
           /\ committed.executions[bids[i].execution_id]
                = executions[bids[i].execution_id]
           /\ bids'[i].status = "completed"]_vars

\* C15: a bid that an allocation cycle made winning has been run and is
\* completed, its Execution finalized, before the next cycle begins: no bid
\* stays winning across cycles.
C15_WinnersExecuted ==
  [][AllocationStep =>
       \A n \in Rows(cycle_log.pending_bids) :
         LET bid == bids[cycle_log.pending_bids[n]]
         IN /\ bid.status # "winning"
            /\ bid.status = "completed" =>
                 executions[bid.execution_id].status \in {"COMPLETED", "FAILED"}]_vars

\* C16: whatever way the sandbox run of a winning bid fails, the bid becomes
\* completed, its Execution FAILED with exit code 1, and the loop goes on
\* with the next winning bid.
C16_SandboxFailureNotFatal ==
  [][(pc = "execute" /\ winning_bids' # winning_bids) =>
       LET i == Head(winning_bids)
           e == bids[i].execution_id
       IN /\ pc' = "execute"
          /\ winning_bids' = Tail(winning_bids)
          /\ bids[i].from_agent_id \in workspaces =>
               /\ bids'[i].status = "completed"
               /\ executions'[e].status
                    = IF executions'[e].exit_code = 0 THEN "COMPLETED" ELSE "FAILED"]_vars

\* C17: when reward_prompt fails for a prompt of the attention drain, the
\* drain goes on with the remaining prompts, and the death sweep and the
\* commit of the cycle follow.
C17_DrainContinues ==
  [][(pc = "attention" /\ pending_prompts' # pending_prompts) =>
       /\ pc' = "attention"
       /\ pending_prompts' = Tail(pending_prompts)]_vars

\* The Transactions into the attention escrow that a step appends.
EscrowedBy(log, log_after) ==
  {t \in Rows(log_after) \ Rows(log) :
     log_after[t].to_entity_id = "attention_escrow"}

\* C18: a submit_prompt that succeeds debits the agent bid_amount, appends
\* one Transaction from the agent to the attention escrow for bid_amount and
\* creates one pending prompt; it succeeds only with a bid >= 0 covered by the
\* balance, for an execution that exists; a call that fails changes no
\* balance and adds no Transaction and no prompt.
C18_SubmitPromptEffects ==
  [][/\ Len(prompts') > Len(prompts) =>
          LET p == Len(prompts')
              prompt == prompts'[p]
              a == prompt.from_agent_id
          IN /\ Len(prompts') = Len(prompts) + 1
             /\ SubSeq(prompts', 1, Len(prompts)) = prompts
             /\ prompt.status = "pending"
             /\ prompt.bid_amount >= 0
             /\ prompt.execution_id \in Rows(executions)
             /\ Requirements(ResourceBundles[
                   executions[prompt.execution_id].resource_bundle_id]).attention > 0
             /\ a \in DOMAIN agents
             /\ agents[a].credit_balance >= prompt.bid_amount
             /\ agents'[a].credit_balance
                  = agents[a].credit_balance - prompt.bid_amount
             /\ \A b \in DOMAIN agents \ {a} : agents'[b] = agents[b]
             /\ DOMAIN agents' = DOMAIN agents
             /\ transactions' = Append(transactions,
                  NewTransaction(a, "attention_escrow", prompt.bid_amount,
                                 "Bid for attention slot", 0))
     /\ Len(prompts') = Len(prompts) =>
          EscrowedBy(transactions, transactions') = {}]_vars

C18_Witness ==
  \E p \in Rows(prompts), t \in Rows(transactions) :
    /\ prompts[p].status = "pending"
    /\ transactions[t].to_entity_id = "attention_escrow"
    /\ transactions[t].from_entity_id = prompts[p].from_agent_id
    /\ transactions[t].amount = prompts[p].bid_amount
    /\ agents[prompts[p].from_agent_id].total_credits_spent = prompts[p].bid_amount

\* C19: the other preconditions holding, submit_prompt is accepted exactly
\* when the attention fraction of the execution's bundle is > 0.
C19_AttentionRequired ==
  \A a \in DOMAIN agents, e \in Rows(executions), b \in PromptBids :
    (pc # "boot" /\ NoOpenWrite /\ b >= 0 /\ agents[a].credit_balance >= b) =>
      ((ENABLED SubmitPrompt(a, e, b))
         <=> Requirements(ResourceBundles[executions[e].resource_bundle_id]).attention > 0)

\* C20: get_pending_prompts returns exactly the pending prompts, by
\* bid_amount descending and, among equal bids, by timestamp ascending, and
\* the drain rewards them head first.
C20_PromptOrder ==
  [][/\ (pc = "execute" /\ pc' = "attention") =>
          /\ {pending_prompts'[n] : n \in Rows(pending_prompts')}
               = {p \in Rows(prompts) : prompts[p].status = "pending"}
          /\ \A a, b \in Rows(pending_prompts') :
               a < b =>
                 LET first == prompts[pending_prompts'[a]]
                     second == prompts[pending_prompts'[b]]
                 IN \/ first.bid_amount > second.bid_amount
                    \/ /\ first.bid_amount = second.bid_amount
                       /\ first.timestamp < second.timestamp
     /\ DrainStep =>
          /\ pending_prompts' = Tail(pending_prompts)
          /\ prompts'[Head(pending_prompts)].status = "responded"]_vars

\* The Responses of a table for prompt p, and the Transactions whose memo
\* names prompt p.
ResponsesTo(table, p) == {r \in Rows(table) : table[r].prompt_id = p}

SettlementOf(log, p) == {t \in Rows(log) : log[t].memo_prompt = p}

\* C21: in every committed state every responded prompt has exactly one
\* Response, whose credits_awarded is 50 x (interesting + useful +
\* understandable), exactly one Transaction human -> agent for
\* credits_awarded and exactly one Transaction attention_escrow -> system for
\* its bid_amount; the reward raises the balance of the agent by exactly
\* credits_awarded, so the escrowed bid is not returned to it.
C21_PromptSettlement ==
  [][/\ \A p \in Rows(committed'.prompts) :
          committed'.prompts[p].status = "responded" =>
            LET prompt == committed'.prompts[p]
                given == ResponsesTo(committed'.responses, p)
                log == committed'.transactions
                settled == SettlementOf(log, p)
            IN /\ Cardinality(given) = 1
               /\ \A r \in given :
                    LET response == committed'.responses[r]
                    IN /\ response.credits_awarded
                            = 50 * (response.interesting + response.useful
                                      + response.understandable)
                       /\ Cardinality({t \in settled :
                             /\ log[t].from_entity_id = "human"
                             /\ log[t].to_entity_id = prompt.from_agent_id
                             /\ log[t].amount = response.credits_awarded}) = 1
               /\ Cardinality({t \in settled :
                     /\ log[t].from_entity_id = "attention_escrow"
                     /\ log[t].to_entity_id = "system"
                     /\ log[t].amount = prompt.bid_amount}) = 1
               /\ Cardinality(settled) = 2
     /\ Len(responses') = Len(responses) + 1 =>
          LET response == responses'[Len(responses')]
              a == prompts[response.prompt_id].from_agent_id
          IN agents'[a].credit_balance
               = agents[a].credit_balance + response.credits_awarded]_vars

\* C22: reward_prompt fails when a score is outside 0 .. 10, when the
\* prompt does not exist and when the prompt is already responded, through
\* the API as in the attention drain, and a call that fails changes nothing;
\* no prompt is rewarded twice.
C22_RewardRejected ==
  /\ \A p \in PromptIds, scores \in Scores :
       ( \/ ~(\A s \in 1 .. 3 : scores[s] \in 0 .. 10)
         \/ p \notin Rows(prompts)
         \/ prompts[p].status = "responded" )
         => ~ENABLED RewardPrompt(p, scores)
  /\ \A scores \in Scores :
       ( \/ ~(\A s \in 1 .. 3 : scores[s] \in 0 .. 10)
         \/ /\ pending_prompts # <<>>
            /\ prompts[Head(pending_prompts)].status = "responded" )
         => ~ENABLED RewardNextPrompt(scores)
  /\ \A p \in Rows(prompts) : Cardinality(ResponsesTo(responses, p)) <= 1

\* The place of a status in the lifecycle of a prompt.
StatusRank(status) ==
  CASE status = "pending" -> 1
    [] status = "active" -> 2
    [] status = "responded" -> 3

\* The process ends: its session is closed and what it did not commit is
\* rolled back.
SessionClosed == pc # "boot" /\ pc' = "boot"

\* C23: the status of a prompt only moves pending -> active -> responded,
\* never backwards, and no prompt is active in a committed state: a
\* reward_prompt that fails after it marked the prompt active leaves no
\* active prompt behind.
C23_PromptLifecycle ==
  [][/\ ~SessionClosed =>
          \A p \in Rows(prompts) :
            StatusRank(prompts'[p].status) >= StatusRank(prompts[p].status)
     /\ \A p \in Rows(committed'.prompts) :
          committed'.prompts[p].status # "active"]_vars

\* C24: whatever the interleaving of the reward requests of the API and the
\* attention drain, at most one reward_prompt succeeds for a prompt: the
\* prompt has at most one Response and its agent is credited at most once.
C24_SingleReward ==
  \A p \in Rows(prompts) :
    /\ Cardinality(ResponsesTo(responses, p)) <= 1
    /\ Cardinality({t \in SettlementOf(transactions, p) :
                      transactions[t].from_entity_id = "human"}) <= 1

\* The rows a step appends to a table.
Appended(table, table_after) == Rows(table_after) \ Rows(table)

\* C25: a spawn_child_agent(parent, C) that succeeds takes C + SPAWN_COST
\* from the balance of the parent, creates one child, alive with balance C,
\* and appends exactly two Transactions: parent -> SYSTEM for SPAWN_COST and
\* parent -> child for C.
C25_SpawnConservation ==
  [][Cardinality(DOMAIN agents') > Cardinality(DOMAIN agents) =>
       \E child \in DOMAIN agents' \ DOMAIN agents, parent \in DOMAIN agents :
         LET C == agents'[child].credit_balance
             log == transactions'
         IN /\ DOMAIN agents' = DOMAIN agents \cup {child}
            /\ agents'[child].status = "alive"
            /\ agents'[parent].credit_balance
                 = agents[parent].credit_balance - (C + SPAWN_COST)
            /\ \A a \in DOMAIN agents \ {parent} :
                 agents'[a].credit_balance = agents[a].credit_balance
            /\ SubSeq(log, 1, Len(transactions)) = transactions
            /\ Cardinality(Appended(transactions, log)) = 2
            /\ \E fee, gift \in Appended(transactions, log) :
                 /\ fee # gift
                 /\ log[fee].from_entity_id = parent
                 /\ log[fee].to_entity_id \in SystemSinks
                 /\ log[fee].amount = SPAWN_COST
                 /\ log[gift].from_entity_id = parent
                 /\ log[gift].to_entity_id = child
                 /\ log[gift].amount = C]_vars

C25_Witness ==
  \E child \in DOMAIN agents, fee, gift \in Rows(transactions) :
    /\ agents[child].credit_balance = 20
    /\ transactions[fee].memo = "Agent spawn fee"
    /\ transactions[gift].to_entity_id = child
    /\ transactions[gift].amount = 20
    /\ agents[transactions[gift].from_entity_id].total_credits_spent = 30

\* A step of a spawn that failed after _create_agent_with_workspace: it
\* leaves a directory without the files.
SpawnFailed ==
  \E d \in DOMAIN directories' \ DOMAIN directories : directories'[d] = "partial"

\* C26: when spawn_child_agent fails, also after the parent was debited
\* (creating the workspace, copying or writing the files), the committed
\* state has the parent's balance unchanged, no child agent, no workspace
\* row of the child and no new Transaction; a child is only created for a
\* parent that exists and holds SPAWN_COST + initial_credits.
C26_SpawnAtomicity ==
  [][/\ SpawnFailed =>
          /\ \A d \in DOMAIN directories' \ DOMAIN directories :
               /\ d \notin DOMAIN committed'.agents
               /\ d \notin committed'.workspaces
          /\ DOMAIN committed'.agents = DOMAIN committed.agents
          /\ \A a \in DOMAIN committed.agents :
               committed'.agents[a].credit_balance
                 = committed.agents[a].credit_balance
          /\ committed'.transactions = committed.transactions
          /\ committed'.workspaces = committed.workspaces
     /\ \A child \in DOMAIN agents' \ DOMAIN agents :
          \E parent \in DOMAIN agents :
            /\ agents'[child].spawn_lineage # <<>>
            /\ Head(agents'[child].spawn_lineage) = parent
            /\ agents[parent].credit_balance
                 >= SPAWN_COST + agents'[child].credit_balance]_vars

C26_Witness ==
  \E d \in DOMAIN directories :
    /\ directories[d] = "partial"
    /\ d \notin DOMAIN agents
    /\ d \notin workspaces
    /\ committed = Tables

\* C27: the lineage of a spawned agent is its parent followed by the lineage
\* of the parent; no lineage repeats an id or holds the agent's own id, and
\* the lineage of the root agent is empty.
C27_Lineage ==
  \A a \in DOMAIN agents :
    LET lineage == agents[a].spawn_lineage
    IN /\ (a = "genesis") <=> (lineage = <<>>)
       /\ lineage # <<>> =>
            /\ Head(lineage) \in DOMAIN agents
            /\ Tail(lineage) = agents[Head(lineage)].spawn_lineage
       /\ \A m, n \in Rows(lineage) : m # n => lineage[m] # lineage[n]
       /\ \A n \in Rows(lineage) : lineage[n] # a

C27_Witness ==
  \E a \in DOMAIN agents :
    /\ Len(agents[a].spawn_lineage) = 2
    /\ agents[a].spawn_lineage[2] = "genesis"

\* C28: a transfer_credits(from, to, amount) that succeeds moves amount from
\* the balance of from to the balance of to, or burns it when to is the
\* system sink, and appends exactly one Transaction; it succeeds only with
\* amount > 0, a source that exists and holds amount, and a destination that
\* exists or is the sink.  A transfer that fails is no step at all.
C28_Transfer ==
  [][(\E t \in Appended(transactions, transactions') :
        transactions'[t].memo = "transfer") =>
       LET tx == transactions'[Len(transactions')]
           from == tx.from_entity_id
           to == tx.to_entity_id
       IN /\ transactions' = Append(transactions, tx)
          /\ tx.amount > 0
          /\ from \in DOMAIN agents
          /\ agents[from].credit_balance >= tx.amount
          /\ to = "system" \/ to \in DOMAIN agents
          /\ DOMAIN agents' = DOMAIN agents
          /\ \A a \in DOMAIN agents :
               agents'[a].credit_balance
                 = agents[a].credit_balance
                     - (IF a = from THEN tx.amount ELSE 0)
                     + (IF a = to THEN tx.amount ELSE 0)]_vars

C28_Witness ==
  \E t \in Rows(transactions) :
    /\ transactions[t].memo = "transfer"
    /\ transactions[t].to_entity_id = "genesis"
    /\ transactions[t].from_entity_id # "genesis"
    /\ agents[transactions[t].from_entity_id].credit_balance = 15
    /\ agents["genesis"].total_credits_earned = 5

\* C29: no debit of a dead agent succeeds: no Transaction is appended whose
\* payer is dead (transfer_credits, submit_prompt, spawn_child_agent), no
\* prompt of a dead agent is created, and a pending bid of a dead agent is
\* outbid when it is cleared.
C29_DeadAgentsPayNothing ==
  [][/\ \A t \in Appended(transactions, transactions') :
          transactions'[t].from_entity_id \in DOMAIN agents
            => agents[transactions'[t].from_entity_id].status # "dead"
     /\ \A p \in Appended(prompts, prompts') :
          agents[prompts'[p].from_agent_id].status # "dead"
     /\ AllocationStep =>
          \A i \in Cleared :
            agents[bids[i].from_agent_id].status = "dead"
              => bids'[i].status = "outbid"]_vars

\* C30: after the death sweep of a cycle no agent is alive with a balance
\* <= 0 in the committed state; the sweep changes the status of such agents
\* and nothing else, a second sweep changes nothing, and no step makes a
\* dead agent alive.
C30_DeathSweep ==
  [][/\ SweepStep =>
          /\ \A a \in DOMAIN committed'.agents :
               ~ /\ committed'.agents[a].status = "alive"
                 /\ committed'.agents[a].credit_balance <= 0
          /\ DOMAIN agents' = DOMAIN agents
          /\ \A a \in DOMAIN agents :
               /\ [agents'[a] EXCEPT !.status = agents[a].status] = agents[a]
               /\ agents'[a].status # agents[a].status =>
                    /\ agents[a].credit_balance <= 0
                    /\ agents[a].status = "alive"
                    /\ agents'[a].status = "dead"
          /\ bids' = bids /\ prompts' = prompts /\ executions' = executions
          /\ transactions' = transactions /\ responses' = responses
          /\ workspaces' = workspaces /\ market' = market
          /\ DeathSweep(agents') = agents'
     /\ \A a \in DOMAIN agents \cap DOMAIN agents' :
          agents[a].status = "dead" => agents'[a].status = "dead"]_vars

C30_Witness ==
  /\ pc = "allocate"
  /\ cycle_log.ran
  /\ committed = Tables
  /\ \E a, b \in DOMAIN agents :
       /\ agents[a].status = "dead" /\ agents[a].credit_balance = 0
       /\ agents[b].status = "alive" /\ agents[b].credit_balance > 0

(***************************************************************************)
(* Relations between two runs of the clearing.                             *)
(***************************************************************************)
\* The largest amount among the bids S, 0 when S is empty.
HighestAmount(S) ==
  IF S = {} THEN 0
  ELSE LET top == CHOOSE i \in S : \A j \in S : bids[j].amount <= bids[i].amount
       IN bids[top].amount

\* The status of bid i when the clearing of this step is run on the same
\* tables with the amount of bid i replaced, the query returning query_result.
Reclear(i, amount, query_result) ==
  LET raised == [bids EXCEPT ![i].amount = amount]
      market_states == [rt \in DOMAIN market |-> market[rt].available_supply]
      start == [agents |-> agents, bids |-> raised, executions |-> executions,
                consumed_supply |-> [rt \in DOMAIN market_states |-> 0],
                price_discovery |->
                  [rt \in ResourceType |->
                     [total_credits |-> 0, total_capacity_seconds |-> 0]]]
  IN ClearBids(SortByAmount(query_result, raised), start, market_states).bids[i].status

\* Amounts above the bid's own and above every winner's.
RaisedAmounts(i) ==
  LET floor == IF HighestAmount(Winners) > bids[i].amount
               THEN HighestAmount(Winners) ELSE bids[i].amount
  IN {floor + 1, floor + GENESIS_CREDITS}

\* C31 as stated: a bid outbid in a clearing is winning when the clearing is
\* run again with its amount raised above every winner's, the supply, the
\* bundles and the other bids being the same.
C31_AuctionMonotonicity ==
  [][AllocationStep =>
       \A i \in Cleared :
         bids'[i].status = "outbid" =>
           \A amount \in RaisedAmounts(i), query_result \in QueryOrders(Cleared) :
             Reclear(i, amount, query_result) = "winning"]_vars

\* C31 amended: the raised bid wins when its bundle fits in the supply on its
\* own and the balance of its agent before the clearing covers the raised
\* amount.
C31_AuctionMonotonicityAmended ==
  [][AllocationStep =>
       \A i \in Cleared :
         bids'[i].status = "outbid" =>
           \A amount \in RaisedAmounts(i), query_result \in QueryOrders(Cleared) :
             (/\ \A k \in ResourceType : Request(i)[k] <= market[k].available_supply
              /\ agents[bids[i].from_agent_id].credit_balance >= amount)
               => Reclear(i, amount, query_result) = "winning"]_vars

\* A clearing in which a bid that fits in the supply on its own was outbid by
\* a winner of the same bundle, its agent being able to pay more than the
\* winner did.
C31_Witness ==
  /\ pc = "select"
  /\ \E a, b \in Rows(cycle_log.pending_bids) :
       LET w == cycle_log.pending_bids[a]
           l == cycle_log.pending_bids[b]
       IN /\ bids[w].status = "winning"
          /\ bids[l].status = "outbid"
          /\ bids[w].resource_bundle_id = "cpu6"
          /\ bids[l].resource_bundle_id = "cpu6"
          /\ agents[bids[l].from_agent_id].credit_balance > bids[w].amount

(***************************************************************************)
(* create_genesis_agent called on a database that may hold the root agent  *)
(* already.                                                                *)
(***************************************************************************)
\* The balances the root agent can have when the function is called.
GenesisBalances == -5 .. 60

\* The agents table before the call: empty, or holding the root agent.
GenesisTables ==
  {<<>>} \cup {("genesis" :> [NewAgent(b, <<>>) EXCEPT !.status = s]) :
                 b \in GenesisBalances, s \in {"alive", "dead"}}

GenesisInit ==
  /\ agents \in GenesisTables
  /\ workspaces = DOMAIN agents
  /\ directories = [a \in DOMAIN agents |-> "written"]
  /\ bids = <<>>
  /\ executions = <<>>
  /\ transactions = <<>>
  /\ market = SeedMarket
  /\ prompts = <<>>
  /\ responses = <<>>
  /\ pc = "boot"
  /\ winning_bids = <<>>
  /\ pending_prompts = <<>>
  /\ cycle_log = NoCycle
  /\ committed = Tables
  /\ crashes = 0
  /\ identity_map = NothingLoaded

\* create_genesis_agent on a database without the root agent: the directory,
\* the Workspace and the Agent are created and committed.
CreateGenesisAgent ==
  /\ pc = "boot"
  /\ "genesis" \notin DOMAIN agents
  /\ directories' = directories @@ ("genesis" :> "written")
  /\ workspaces' = workspaces \cup {"genesis"}
  /\ agents' = agents @@ ("genesis" :> NewAgent(GENESIS_CREDITS, <<>>))
  /\ UNCHANGED <<bids, executions, transactions, market, prompts, responses, pc,
                 winning_bids, pending_prompts, cycle_log, crashes>>
  /\ Commit
  /\ identity_map' = NothingLoaded

\* create_genesis_agent on a database that holds the root agent: makedirs
\* accepts the existing directory, the second Workspace row is flushed, and
\* the flush of a second Agent with the primary key "genesis" raises; the
\* failed flush rolls the Workspace row back and nothing is committed.
CreateGenesisAgentRaises ==
  /\ pc = "boot"
  /\ "genesis" \in DOMAIN agents
  /\ pc' = "aborted"
  /\ UNCHANGED <<agents, workspaces, bids, executions, transactions, market,
                 prompts, responses, winning_bids, pending_prompts, cycle_log,
                 committed, crashes, identity_map, directories>>

GenesisNext ==
  \/ CreateGenesisAgent
  \/ CreateGenesisAgentRaises
  \/ AbortCycle

GenesisSpec == GenesisInit /\ [][GenesisNext]_vars

\* C32: create_genesis_agent called when the agent genesis exists succeeds
\* without error and leaves one genesis agent, its balance and its workspace
\* unchanged.
C32_GenesisIdempotent ==
  [][(pc = "boot" /\ "genesis" \in DOMAIN agents /\ ~(pc' = "boot" /\ UNCHANGED vars))
       => /\ pc' # "aborted"
          /\ agents' = agents
          /\ workspaces' = workspaces]_vars

(***************************************************************************)
(* Events.                                                                 *)
(***************************************************************************)
\* A step of run_allocation_cycle in which nc.publish raised.
PublishFailed == pc = "allocate" /\ pc' # pc /\ cycle_log'.raised = "publish"

\* C33: a failure to publish an event does not abort the state change: the
\* allocation cycle in which publishing fails completes and commits what it
\* commits when no event bus is attached.
C33_PublishFailureNotFatal ==
  [][PublishFailed =>
       /\ pc' = "select"
       /\ \E query_result \in QueryOrders(Cleared) :
            LET result == AllocationResult(query_result)
            IN /\ committed'.agents = result.agents
               /\ committed'.bids = result.bids
               /\ committed'.executions = result.executions
               /\ committed'.market = result.market]_vars

\* C34: when run_allocation_cycle has published a bid_processed event with
\* status winning or a price_discovered event, the status of the bid and the
\* price are committed; a call that aborts has published no event.
C34_EventsAfterCommit ==
  [][(pc = "allocate" /\ pc' # pc) =>
       /\ \A e \in cycle_log'.published :
            /\ (e.subject = "system.market.bid_processed" /\ e.status = "winning")
                 => committed'.bids[e.bid_id].status = "winning"
            /\ e.subject = "system.market.price_discovered"
                 => committed'.market[e.resource_type].current_market_price
                      = e.new_price
       /\ pc' = "aborted" => cycle_log'.published = {}]_vars

\* C35: every bid has an amount > 0, place_bid creating no bid for an amount
\* <= 0, so that clearing the bids raises the balance of no agent.
C35_PositiveBids ==
  [][/\ \A i \in Rows(bids') : bids'[i].amount > 0
     /\ AllocationStep =>
          \A a \in DOMAIN agents :
            agents'[a].credit_balance <= agents[a].credit_balance]_vars

(***************************************************************************)
(* The drain with an operator surface that is not interactive.             *)
(***************************************************************************)
\* The steps the driver takes in the drain when stdin is at its end and is
\* not a terminal: it rewards the next prompt with the substituted scores or,
\* the list being empty, runs the death check and commits.
NonInteractiveDrain ==
  \/ RewardNextPrompt(ReadScores(EndOfInput, FALSE))
  \/ DeathCheck

\* The driver, a sequential process, takes its next step when it has one.
DrainSpec == Spec /\ WF_vars(NonInteractiveDrain)

\* C36: when reading the operator's input fails with end-of-input on a
\* surface that is not interactive, the scores are (5, 5, 5) and the prompt
\* is rewarded, so the cycle that is in its drain reaches its death sweep and
\* commits.
C36_DrainNeverBlocks ==
  /\ [](ReadScores(EndOfInput, FALSE) = <<5, 5, 5>>)
  /\ \A c \in 0 .. MaxCrashes :
       (pc = "attention" /\ crashes = c)
         ~> (pc = "allocate" /\ crashes = c /\ committed = Tables)

(***************************************************************************)
(* run_allocation_cycle statement by statement: the requests of the API    *)
(* run in their own threads and commit between the statements of the       *)
(* driver that hold no lock of the store.                                  *)
(***************************************************************************)
\* run_allocation_cycle from its query of the pending bids to the first read
\* of bid.agent.credit_balance: the bids are sorted, and the Agent of the
\* first bid whose bundle fits in the supply is loaded by a SELECT that takes
\* no lock.
QueryPendingBids ==
  /\ UNCHANGED directories
  /\ pc = "allocate"
  /\ \E query_result \in
        QueryOrders({i \in Rows(bids) : bids[i].status = "pending"}) :
       LET pending_bids == SortByAmount(query_result, bids)
           market_states == [rt \in DOMAIN market |-> market[rt].available_supply]
           fitting == {n \in Rows(pending_bids) :
                         LET requirements ==
                               Requirements(ResourceBundles[
                                 bids[pending_bids[n]].resource_bundle_id])
                         IN \A rt \in Counted(requirements, market_states) :
                              ~(requirements[rt] > market_states[rt])}
       IN /\ cycle_log' = [ran |-> FALSE, pending_bids |-> pending_bids,
                            published |-> {}, raised |-> "none"]
          /\ identity_map' =
               IF fitting = {} THEN NothingLoaded
               ELSE LET first == CHOOSE n \in fitting : \A m \in fitting : n <= m
                        agent_id == bids[pending_bids[first]].from_agent_id
                    IN (agent_id :> agents[agent_id])
  /\ pc' = "clearing"
  /\ UNCHANGED <<agents, workspaces, bids, executions, transactions, market,
                 prompts, responses, winning_bids, pending_prompts, committed,
                 crashes>>

\* The rest of run_allocation_cycle: the loop decides with the balance of the
\* loaded Agent and subtracts the bid from it; the flush writes the
\* credit_balance of every Agent whose balance the loop changed, and commit
\* ends the cycle.
ClearPendingBids ==
  /\ UNCHANGED directories
  /\ pc = "clearing"
  /\ LET loaded == [a \in DOMAIN agents |-> Loaded(a)]
         market_states == [rt \in DOMAIN market |-> market[rt].available_supply]
         start == [agents |-> loaded, bids |-> bids, executions |-> executions,
                   consumed_supply |-> [rt \in DOMAIN market_states |-> 0],
                   price_discovery |->
                     [rt \in ResourceType |->
                        [total_credits |-> 0, total_capacity_seconds |-> 0]]]
         end == ClearBids(cycle_log.pending_bids, start, market_states)
         updated == UpdateMarket(market, end.consumed_supply, end.price_discovery)
     IN /\ agents' =
             [a \in DOMAIN agents |->
                IF end.agents[a].credit_balance # loaded[a].credit_balance
                THEN [agents[a] EXCEPT
                        !.credit_balance = end.agents[a].credit_balance]
                ELSE agents[a]]
        /\ bids' = end.bids
        /\ executions' = end.executions
        /\ market' = updated
        /\ cycle_log' =
             [ran |-> TRUE, pending_bids |-> cycle_log.pending_bids,
              published |->
                BidEvents(cycle_log.pending_bids, end.bids,
                          Len(cycle_log.pending_bids))
                  \cup PriceEvents(updated, end.price_discovery),
              raised |-> "none"]
  /\ pc' = "select"
  /\ UNCHANGED <<workspaces, transactions, prompts, responses, winning_bids,
                 pending_prompts>>
  /\ Commit
  /\ UNCHANGED crashes
  /\ identity_map' = NothingLoaded

RaceNext ==
  \/ Bootstrap
  \/ QueryPendingBids
  \/ ClearPendingBids
  \/ SelectWinningBids
  \/ \E exit_code \in {0, 1} : ExecuteBid(exit_code)
  \/ UpdatePricesAndFetchPrompts
  \/ \E entry \in OperatorEntries, isatty \in BOOLEAN :
       /\ ReadScores(entry, isatty) # AskAgain
       /\ RewardNextPrompt(ReadScores(entry, isatty))
  \/ DeathCheck
  \/ /\ Accepted
     /\ \E a \in DOMAIN agents, request \in BidRequests :
          PlaceBid(a, request[1], request[2])
  \/ /\ Accepted
     /\ \E a \in DOMAIN agents, e \in Rows(executions), bid_amount \in PromptBids :
          SubmitPrompt(a, e, bid_amount)
  \/ /\ Accepted
     /\ \E from_id \in AgentNames, to_id \in TransferTargets,
           amount \in TransferAmounts :
          TransferCredits(from_id, to_id, amount)
  \/ /\ Accepted
     /\ \E parent_id \in AgentNames, initial_credits \in InitialCredits :
          SpawnChildAgent(parent_id, initial_credits)

RaceSpec == Init /\ [][RaceNext]_vars

\* The commit of an allocation cycle.
ClearingStep == pc = "clearing" /\ pc' = "select"

\* C37: no debit is lost when a transfer, a prompt or a spawn debits an agent
\* while the allocation cycle runs: the commit of the cycle lowers the
\* committed balance of every agent by the bids it won, keeping the debits
\* committed before it, and makes no balance negative.
C37_NoLostDebit ==
  [][ClearingStep =>
       \A a \in DOMAIN committed.agents :
         LET won == {i \in Rows(bids) : /\ bids[i].status = "pending"
                                         /\ bids'[i].status = "winning"
                                         /\ bids[i].from_agent_id = a}
         IN /\ committed'.agents[a].credit_balance
                 = committed.agents[a].credit_balance - AmountsOf(bids, won)
            /\ committed.agents[a].credit_balance >= 0
                 => committed'.agents[a].credit_balance >= 0]_vars

(***************************************************************************)
(* Counters and escrow.                                                    *)
(***************************************************************************)
\* C38: the counters of an agent follow its balance: in every step of the
\* running system the balance of an agent changes by what the step adds to
\* total_credits_earned minus what it adds to total_credits_spent, so that
\* balance = initial balance + total_credits_earned - total_credits_spent.
C38_CountersFollowBalance ==
  [][pc # "boot" =>
       \A a \in DOMAIN agents :
         agents'[a].credit_balance - agents[a].credit_balance
           = (agents'[a].total_credits_earned - agents[a].total_credits_earned)
               - (agents'[a].total_credits_spent - agents[a].total_credits_spent)]_vars

\* The total of the Transactions of log whose field side is the entity.
EscrowTotal(log, side, entity) ==
  AmountsOf(log, {t \in Rows(log) : log[t][side] = entity})

\* C39: in every committed state the Transactions into the attention escrow
\* minus those out of it are the sum of bid_amount over the prompts that are
\* not responded; the difference is not negative and no Transaction goes from
\* the escrow to an agent.
C39_EscrowAccounting ==
  LET log == committed.transactions
      held == EscrowTotal(log, "to_entity_id", "attention_escrow")
                - EscrowTotal(log, "from_entity_id", "attention_escrow")
      open == {p \in Rows(committed.prompts) :
                 committed.prompts[p].status # "responded"}
  IN /\ held = SumOver(open, [p \in open |-> committed.prompts[p].bid_amount])
     /\ held >= 0
     /\ \A t \in Rows(log) :
          log[t].from_entity_id = "attention_escrow"
            => log[t].to_entity_id \notin DOMAIN committed.agents

\* C40: an agent spends attention on its own execution only: submit_prompt
\* for an execution of another agent creates no prompt and debits nothing,
\* so every prompt names an execution of the agent that submitted it.
C40_OwnExecution ==
  \A p \in Rows(prompts) :
    executions[prompts[p].execution_id].agent_id = prompts[p].from_agent_id

====
